---------------------------- MODULE Spec2Model ----------------------------
(***************************************************************************)
(* A model of scripts/orchestrator.py: the KubernetesOrchestrator that     *)
(* deploys a Helm release, waits for the worker and controller pods,       *)
(* collects the test cases and executes them in the controller pod.        *)
(*                                                                         *)
(* The program is sequential.  Each action below is one step of it that    *)
(* ends at an external call (pod listing, helm, exec in a pod, sleep); the *)
(* answers of the external services are drawn from small sets.  A call     *)
(* stack of return labels links a callee to its caller.                    *)
(*                                                                         *)
(* Text (the captured stdout of a remote command) is a sequence of         *)
(* one-character strings, so that lower(), split(), strip() and the "in"   *)
(* substring test are computed as Python computes them.                    *)
(***************************************************************************)
EXTENDS Integers, Sequences, FiniteSets, TLC

(***************************************************************************)
(* Program constants (module level of orchestrator.py).                    *)
(***************************************************************************)
READINESS_TIMEOUT == 300
READINESS_CHECK_INTERVAL == 5
MAX_RETRIES == 3
RETRY_DELAY == 10
DEFAULT_NODE_COUNT == 1
MIN_NODE_COUNT == 1
MAX_NODE_COUNT == 5
CONTROLLER_POD_LABEL == "app=test-case-controller"
CHROME_NODE_POD_LABEL == "app=chrome-node"
CHROME_NODE_HEADLESS_SVC == "chrome-node-headless"
NAMESPACE == "insider-testops"

(***************************************************************************)
(* Bounds of the model.                                                    *)
(***************************************************************************)
\* Most pods one listing of the worker fleet returns.
MaxPods == 3
\* The seconds a slow pod-list call takes inside checkReadiness (a fast one
\* takes none).
MaxLatency == 5
\* Most seconds a remote command that finishes runs for, and the seconds
\* counted of the wait for one that does not.
MaxWait == 3
\* _validateNodeCount is applied to every integer in -ClampRange..ClampRange.
ClampRange == 60
\* Most container statuses of a pod snapshot _isPodReady is applied to.
MaxContainers == 3
\* Most attempts retryOnStaleElement is configured with.
MaxAttempts == 4
\* Most calls of passTestCases made on one orchestrator object.
MaxCalls == 2
\* Most worker sub-units ("nodes") in one status body.
MaxNodes == 2

\* Python's None where a pod or host name is expected (names are tuples), and
\* a chart path that is None or empty (`helmChartPath` is tested for truth).
None == <<>>
NoPath == ""

(***************************************************************************)
(* Text.                                                                   *)
(***************************************************************************)
UpperCase == <<"A","B","C","D","E","F","G","H","I","J","K","L","M",
               "N","O","P","Q","R","S","T","U","V","W","X","Y","Z">>
LowerCase == <<"a","b","c","d","e","f","g","h","i","j","k","l","m",
               "n","o","p","q","r","s","t","u","v","w","x","y","z">>

\* str.lower() on one character.
LowerChar(c) ==
    IF \E i \in 1..26 : UpperCase[i] = c
    THEN LowerCase[CHOOSE i \in 1..26 : UpperCase[i] = c]
    ELSE c

\* str.lower()
Lower(s) == [i \in 1..Len(s) |-> LowerChar(s[i])]

\* sub in s
Contains(s, sub) ==
    \E i \in 1..(Len(s) - Len(sub) + 1) : SubSeq(s, i, i + Len(sub) - 1) = sub

\* s.startswith(prefix)
StartsWith(s, prefix) ==
    /\ Len(s) >= Len(prefix)
    /\ SubSeq(s, 1, Len(prefix)) = prefix

Whitespace == {" ", "\t", "\r", "\n"}

RECURSIVE LStrip(_)
LStrip(s) ==
    IF s # <<>> /\ Head(s) \in Whitespace THEN LStrip(Tail(s)) ELSE s

RECURSIVE RStrip(_)
RStrip(s) ==
    IF s # <<>> /\ s[Len(s)] \in Whitespace
    THEN RStrip(SubSeq(s, 1, Len(s) - 1))
    ELSE s

\* str.strip()
Strip(s) == RStrip(LStrip(s))

\* str.split("\n"): the pieces between the newlines, empty pieces kept.
RECURSIVE SplitLines(_)
SplitLines(s) ==
    IF \E i \in 1..Len(s) : s[i] = "\n"
    THEN LET i == CHOOSE k \in 1..Len(s) :
                      s[k] = "\n" /\ \A j \in 1..(k - 1) : s[j] # "\n"
         IN  <<SubSeq(s, 1, i - 1)>> \o SplitLines(SubSeq(s, i + 1, Len(s)))
    ELSE <<s>>

PASSED == <<"p","a","s","s","e","d">>
FAILED == <<"f","a","i","l","e","d">>
SEPARATOR == <<":",":">>

(***************************************************************************)
(* _validateNodeCount                                                      *)
(***************************************************************************)
\* A clamp without the upper bound, to compare _validateNodeCount with.
ClampNoUpper(nodeCount) ==
    IF nodeCount < MIN_NODE_COUNT THEN MIN_NODE_COUNT ELSE nodeCount

_validateNodeCount(nodeCount) ==
    IF nodeCount < MIN_NODE_COUNT THEN MIN_NODE_COUNT
    ELSE IF nodeCount > MAX_NODE_COUNT THEN MAX_NODE_COUNT
    ELSE nodeCount

(***************************************************************************)
(* Pods.  A pod snapshot is [name, phase, cs]: cs is the sequence of the   *)
(* container statuses' ready flags (empty: no container statuses).         *)
(***************************************************************************)
\* The <<phase, cs>> of the pods listed.
PodStatuses ==
    {<<"Pending", <<TRUE>>>>, <<"Running", <<>>>>, <<"Running", <<TRUE>>>>,
     <<"Running", <<TRUE, FALSE>>>>}

WorkerName(i) == <<"chrome-node", i>>
ControllerName(i) == <<"test-case-controller", i>>

\* The answers of list_namespaced_pod for the worker label: up to MaxPods
\* pods, in the order the API lists them.
WorkerLists ==
    UNION {[1..n -> PodStatuses] : n \in 0..MaxPods}

Pod(name, st) == [name |-> name, phase |-> st[1], cs |-> st[2]]

WorkerPods(l) == [i \in 1..Len(l) |-> Pod(WorkerName(i), l[i])]

ControllerLists ==
    UNION {[1..n -> PodStatuses] : n \in 0..2}

ControllerPods(l) == [i \in 1..Len(l) |-> Pod(ControllerName(i), l[i])]

\* The phases a pod can report.
PodPhases == {"Pending", "Running", "Succeeded", "Failed", "Unknown"}

\* A variant that takes a pod without container statuses for ready.
ReadyWithoutStatuses(pod) ==
    IF pod.phase # "Running" THEN FALSE
    ELSE \A i \in 1..Len(pod.cs) : pod.cs[i]

_isPodReady(pod) ==
    IF pod.phase # "Running" THEN FALSE
    ELSE IF pod.cs = <<>> THEN FALSE
    ELSE \A i \in 1..Len(pod.cs) : pod.cs[i]

\* What list_namespaced_pod comes to: it returns the items, raises an
\* ApiException, or raises an exception of another class (the client's
\* connection and timeout errors are no ApiException).
ListFaults == {"none", "ApiException", "Exception"}

\* _getPodsByLabel catches ApiException alone; any other exception goes up
\* to the caller.
Escapes(fault) == fault \notin {"none", "ApiException"}

CaughtListFaults == {fault \in ListFaults : ~Escapes(fault)}

\* A variant that still has pods to show after an API error.
ListsDespiteError(fault, items) == items

\* _getPodsByLabel: the listed pods, or [] when the API call raises an
\* ApiException.
_getPodsByLabel(fault, items) == IF fault = "ApiException" THEN <<>> ELSE items

\* A variant that takes the first ready pod when there is one.
FirstReadyPodName(pods) ==
    IF pods = <<>> THEN None
    ELSE IF \E i \in 1..Len(pods) : _isPodReady(pods[i])
    THEN pods[CHOOSE i \in 1..Len(pods) :
                  /\ _isPodReady(pods[i])
                  /\ \A j \in 1..(i - 1) : ~_isPodReady(pods[j])].name
    ELSE pods[1].name

\* _getPodName: the first listed pod's name, or None.
_getPodName(pods) == IF pods # <<>> THEN pods[1].name ELSE None

_getChromeNodeDns(podName) ==
    <<podName, CHROME_NODE_HEADLESS_SVC, NAMESPACE, "svc.cluster.local">>

(***************************************************************************)
(* The outcome of running a command inside a pod.  _execInPod turns a      *)
(* fault of the exec channel into (1, "", str(e)).                         *)
(***************************************************************************)
_execInPod(fault, rc, stdout, stderr) ==
    IF fault
    THEN [rc |-> 1, stdout |-> <<>>, stderr |-> <<"e","r","r">>]
    ELSE [rc |-> rc, stdout |-> stdout, stderr |-> stderr]

(***************************************************************************)
(* The worker status probe.  What curl prints is one of: nothing, text     *)
(* that is not JSON, JSON that is not an object, or a JSON object          *)
(*   {value: {ready, nodes: [{slots: [{session}, ...]}, ...]}}             *)
(* in which any key may be missing.  A body is                             *)
(*   [text, hasValue, ready, hasNodes, nodes]                              *)
(* with ready in {"true","false","missing"}, a node [hasSlots, slots] and  *)
(* a slot one of "session" (a session object), "null" (session: null) and  *)
(* "absent" (no session key).                                              *)
(***************************************************************************)
SlotLists ==
    {<<>>, <<"null">>, <<"session">>, <<"session", "null">>, <<"absent">>}

NodeKinds ==
    {[hasSlots |-> FALSE, slots |-> <<>>]}
        \cup {[hasSlots |-> TRUE, slots |-> sl] : sl \in SlotLists}

NodeLists == UNION {[1..n -> NodeKinds] : n \in 0..MaxNodes}

NoBody(text) ==
    [text |-> text, hasValue |-> FALSE, ready |-> "missing",
     hasNodes |-> FALSE, nodes |-> <<>>]

JsonBodies ==
    {NoBody("json")}
        \cup {[text |-> "json", hasValue |-> TRUE, ready |-> r,
               hasNodes |-> FALSE, nodes |-> <<>>] :
                  r \in {"true", "false", "missing"}}
        \cup {[text |-> "json", hasValue |-> TRUE, ready |-> r,
               hasNodes |-> TRUE, nodes |-> ns] :
                  r \in {"true", "false", "missing"}, ns \in NodeLists}

\* What one probe can come back with: [fault, rc, body].
ProbeReplies ==
    {[fault |-> TRUE, rc |-> 0, body |-> NoBody("empty")],
     [fault |-> FALSE, rc |-> 7, body |-> NoBody("empty")],
     [fault |-> FALSE, rc |-> 0, body |-> NoBody("empty")],
     [fault |-> FALSE, rc |-> 0, body |-> NoBody("blank")],
     [fault |-> FALSE, rc |-> 0, body |-> NoBody("garbage")],
     [fault |-> FALSE, rc |-> 0, body |-> NoBody("nondict")]}
        \cup {[fault |-> FALSE, rc |-> 7, body |-> NoBody("json")]}
        \cup {[fault |-> FALSE, rc |-> 0, body |-> b] : b \in JsonBodies}

\* value.get("ready", False)
BodyReady(body) == body.hasValue /\ body.ready = "true"

\* value.get("nodes", [])
BodyNodes(body) ==
    IF body.hasValue /\ body.hasNodes THEN body.nodes ELSE <<>>

\* node.get("slots", [])
NodeSlots(node) == IF node.hasSlots THEN node.slots ELSE <<>>

\* The number of slots whose slot.get("session") is not None.
Occupied(slots) == Cardinality({i \in 1..Len(slots) : slots[i] = "session"})

\* The loop over the nodes: activeSessions is added up over all the nodes,
\* maxSessions is overwritten by each node's slot count.
RECURSIVE ScanNodes(_, _, _)
ScanNodes(nodes, activeSessions, maxSessions) ==
    IF nodes = <<>>
    THEN [sessions |-> activeSessions, maxSessions |-> maxSessions]
    ELSE ScanNodes(Tail(nodes),
                   activeSessions + Occupied(NodeSlots(Head(nodes))),
                   Len(NodeSlots(Head(nodes))))

Unavailable ==
    [available |-> FALSE, ready |-> FALSE, sessions |-> 0, maxSessions |-> 0]

\* _checkChromeNodeStatus on one probe reply.  A non-zero exit (a fault of
\* the exec channel comes back as exit 1) and an output that is empty after
\* strip() are unavailable; so are a body json.loads rejects ("garbage") and
\* a body that is no object, whose .get raises ("nondict").
_checkChromeNodeStatus(reply) ==
    LET r == _execInPod(reply.fault, reply.rc, <<>>, <<>>)
        scan == ScanNodes(BodyNodes(reply.body), 0, 1)
    IN  IF r.rc # 0 \/ reply.body.text \in {"empty", "blank"}
        THEN Unavailable
        ELSE IF reply.body.text = "garbage" THEN Unavailable
        ELSE IF reply.body.text = "nondict" THEN Unavailable
        ELSE [available |-> BodyReady(reply.body)
                                /\ scan.sessions < scan.maxSessions,
              ready |-> BodyReady(reply.body),
              sessions |-> scan.sessions,
              maxSessions |-> scan.maxSessions]

\* The specification's reading of a status body: active sessions are the
\* occupied slots of all the sub-units, capacity is the slots of all of them.
RECURSIVE ActiveSessions(_)
ActiveSessions(nodes) ==
    IF nodes = <<>> THEN 0
    ELSE Occupied(NodeSlots(Head(nodes))) + ActiveSessions(Tail(nodes))

RECURSIVE Capacity(_)
Capacity(nodes) ==
    IF nodes = <<>> THEN 0
    ELSE Len(NodeSlots(Head(nodes))) + Capacity(Tail(nodes))

\* Whether a reply is a status body at all (the probe succeeded).
Answered(reply) ==
    ~reply.fault /\ reply.rc = 0 /\ reply.body.text = "json"

(***************************************************************************)
(* The state.                                                              *)
(***************************************************************************)
VARIABLES
    entry,      \* the method called: "run", "handleErrors", "executeTests",
                \* "checkReadiness", "_validateNodeCount"
    args,       \* the arguments of the call, the state of the file system
                \* and the MAX_RETRIES the environment configures
    pc,         \* the place the program is at
    stack,      \* the return labels of the calls in progress
    run,        \* run's locals, its result, and the log of its stages
    he,         \* handleErrors: attempt, the results of the calls, the helm
                \* runs the operation made, the result
    dp,         \* deploy: clamped node count, attempt, what each run of helm
                \* came to (log), the sleeps
    cr,         \* checkReadiness: arguments, the seconds elapsed since
                \* startTime, the reading (at) the last poll was entered
                \* with, whether a poll has counted minReady ready pods (hit),
                \* what the API answered at the last poll (answer) and the
                \* ready pods in that answer (ready)
    pt,         \* passTestCases: the number of the call on this object,
                \* attempt, the controller pod taken, whether the listing
                \* showed it ready (podReady) and how many ready pods the
                \* listing held (readyListed), per attempt (log) whether the
                \* controller pod was found and the exit code and output of
                \* the collection, the result
    collected,  \* self._collectedTestCases
    ex,         \* executeTests: controller pod, node, attempts, per
                \* attempt (log) the exit code and output of the command,
                \* the pod it ran in and its environment, the result, the
                \* exception raised by its own statements (error)
    sel,        \* _getAvailableChromeNode: the pods, the loop index, the
                \* result; per probe made (probes) the pod's index, whether
                \* a status body came back, what the status says, and
                \* whether the body's occupied slots are fewer than its
                \* slots, both over all its sub-units (fits); of a
                \* probe just made (last) the status and the body's occupied
                \* slots and slots over all its sub-units
    helm,       \* the distinct helm commands run so far (their --set values)
    clamp,      \* _validateNodeCount applied on its own: [n, out, done]
    probe,      \* _checkChromeNodeStatus applied on its own: the reply of
                \* the probe command, the status made of it, done
    xp,         \* _execInPod called on its own: what the remote command
                \* does, the seconds waited on the stream, the result
    snap,       \* _isPodReady applied on its own: the pod snapshot, out, done
    mn,         \* main: the command line, whether the orchestrator can be
                \* constructed, the steps dispatched to, the exit code
    rs          \* retryOnStaleElement's wrapper: maxAttempts, delay, the
                \* loop index (attempt), what each call of the wrapped
                \* function came to (calls), the sleeps, the result or the
                \* exception that left the wrapper

vars == <<entry, args, pc, stack, run, he, dp, cr, pt, collected, ex, sel,
          helm, clamp, probe, xp, snap, mn, rs>>

\* The node counts run is called with: none (`nodeCount or
\* DEFAULT_NODE_COUNT` treats None as it treats 0, so 0 stands for both) and
\* one above MAX_NODE_COUNT.
NodeCountArgs == {0, 7}

\* helmChartPath: none, or the path of a chart.
ChartPaths == {NoPath, "./helm/insider-testops"}

(***************************************************************************)
(* Python values an operation handed to handleErrors can produce:          *)
(* [t, v, p] is a bool (t = "bool", value v), a tuple whose first element  *)
(* is the bool v and whose rest is p (t = "tuple"), an exception           *)
(* (t = "raise"), or a value that is neither a bool nor a non-empty tuple  *)
(* (None, an empty list, the integer 0, the empty tuple).                  *)
(***************************************************************************)
PyBool(b) == [t |-> "bool", v |-> b, p |-> "-"]
PyNone == [t |-> "none", v |-> FALSE, p |-> "-"]

OpOutcomes ==
    {PyBool(b) : b \in BOOLEAN}
        \cup {[t |-> "tuple", v |-> b, p |-> x] :
                  b \in BOOLEAN, x \in {"out-a", "out-b"}}
        \cup {[t |-> k, v |-> FALSE, p |-> "-"] :
                  k \in {"raise", "none", "list", "int", "emptytuple"}}

EmptyRun == [effectiveNodeCount |-> 0, testCases |-> <<>>, stages |-> <<>>,
             returned |-> FALSE, ret |-> FALSE]
EmptyHe == [op |-> "none", attempt |-> 0, results |-> <<>>, sleeps |-> 0,
            slept |-> 0, invoked |-> 0, returned |-> FALSE, ok |-> FALSE, result |-> PyNone]
EmptyDp == [nodeCount |-> 0, attempt |-> 0, log |-> <<>>, sleeps |-> 0,
            slept |-> 0, returned |-> FALSE, ret |-> FALSE]
EmptyCr == [label |-> "", minReady |-> 0, elapsed |-> 0, at |-> 0,
            hit |-> FALSE, slow |-> FALSE, answer |-> "none", ready |-> 0,
            returned |-> FALSE, ret |-> FALSE]
EmptyPt == [calls |-> 0, attempt |-> 0, controller |-> None,
            podReady |-> FALSE, readyListed |-> 0, log |-> <<>>,
            sleeps |-> 0, slept |-> 0, returned |-> FALSE, ret |-> <<>>]
EmptyEx == [testPath |-> "tests/", specificTests |-> <<>>, command |-> <<>>,
            controller |-> None, node |-> None, attempt |-> 0, log |-> <<>>,
            sleeps |-> 0, slept |-> 0, returned |-> FALSE, ok |-> FALSE,
            out |-> <<>>, error |-> "none"]
NoProbe == [status |-> Unavailable, active |-> 0, capacity |-> 0]
EmptySel == [controller |-> None, pods |-> <<>>, idx |-> 0, probes |-> <<>>,
             last |-> NoProbe, returned |-> FALSE, ret |-> None]
EmptyClamp == [n |-> 0, out |-> 0, done |-> FALSE]
NoCheck == [reply |-> [fault |-> FALSE, rc |-> 0, body |-> NoBody("empty")],
            status |-> Unavailable, done |-> FALSE]
NoResult == [rc |-> 0, stdout |-> <<>>, stderr |-> <<>>]
NoExec == [fault |-> "none", finishes |-> TRUE, lasts |-> 0, rc |-> 0,
           stdout |-> <<>>, waited |-> 0, returned |-> FALSE,
           ret |-> NoResult]
NoSnap == [pod |-> [name |-> None, phase |-> "Pending", cs |-> <<>>],
           out |-> FALSE, done |-> FALSE]
NoRetry == [maxAttempts |-> 0, delay |-> 0, attempt |-> 0, calls |-> <<>>,
            sleeps |-> 0, slept |-> 0, returned |-> FALSE, ret |-> "None",
            raised |-> "none"]
NoFlags == [status |-> FALSE, deploy |-> FALSE, checkReadiness |-> FALSE,
            passTestCases |-> FALSE, executeTests |-> FALSE]
NoMain == [cmdline |-> "ok", flags |-> NoFlags, kubeconfig |-> TRUE,
           chromeReady |-> FALSE, steps |-> <<>>, listed |-> FALSE,
           interrupted |-> FALSE, caught |-> FALSE, exited |-> FALSE,
           code |-> 0]

InitFrames ==
    /\ stack = <<>>
    /\ run = EmptyRun
    /\ he = EmptyHe
    /\ dp = EmptyDp
    /\ cr = EmptyCr
    /\ pt = EmptyPt
    /\ collected = <<>>
    /\ ex = EmptyEx
    /\ sel = EmptySel
    /\ helm = {}
    /\ probe = NoCheck
    /\ xp = NoExec /\ rs = NoRetry /\ mn = NoMain /\ snap = NoSnap

NoArgs ==
    [helmChartPath |-> NoPath, nodeCount |-> 0, skipDeploy |-> FALSE,
     chartExists |-> FALSE, MAX_RETRIES |-> MAX_RETRIES]

\* orchestrator.run(helmChartPath, nodeCount, skipDeploy) on a fresh object.
\* Whether the chart exists on disk is read by deploy alone, so it is left
\* FALSE in the runs that never call deploy.
Init ==
    /\ entry = "run"
    /\ args \in [helmChartPath : ChartPaths, nodeCount : NodeCountArgs,
                 skipDeploy : BOOLEAN, chartExists : BOOLEAN,
                 MAX_RETRIES : {MAX_RETRIES}]
    /\ args.chartExists => args.helmChartPath # NoPath /\ ~args.skipDeploy
    /\ pc = "run"
    /\ clamp = EmptyClamp
    /\ InitFrames

\* orchestrator.handleErrors(operation, operationFunc) on any operation.
InitRetry ==
    /\ entry = "handleErrors"
    /\ args = NoArgs
    /\ pc = "he_enter"
    /\ clamp = EmptyClamp
    /\ InitFrames

\* The node counts deploy is called with on its own.
DeployNodeCounts == (MIN_NODE_COUNT - 2)..(MAX_NODE_COUNT + 2)

\* orchestrator.deploy(helmChartPath, nodeCount); the parameter nodeCount is
\* held where run holds the value it passes, run.effectiveNodeCount.
InitDeploy ==
    /\ entry = "deploy"
    /\ args \in [helmChartPath : ChartPaths \ {NoPath},
                 nodeCount : DeployNodeCounts,
                 skipDeploy : {FALSE}, chartExists : BOOLEAN,
                 MAX_RETRIES : {MAX_RETRIES}]
    /\ pc = "deploy"
    /\ clamp = EmptyClamp
    /\ stack = <<>>
    /\ run = [EmptyRun EXCEPT !.effectiveNodeCount = args.nodeCount]
    /\ he = EmptyHe /\ dp = EmptyDp /\ cr = EmptyCr /\ pt = EmptyPt
    /\ collected = <<>> /\ ex = EmptyEx /\ sel = EmptySel /\ helm = {}
    /\ probe = NoCheck /\ xp = NoExec /\ rs = NoRetry /\ mn = NoMain /\ snap = NoSnap

\* orchestrator.executeTests()
InitExecute ==
    /\ entry = "executeTests"
    /\ args = NoArgs
    /\ pc = "ex_find"
    /\ clamp = EmptyClamp
    /\ InitFrames

\* The thresholds checkReadiness is called with on its own.
MinReadyArgs == {0, 1, 2, 4}

\* orchestrator.checkReadiness(labelSelector, minReady)
InitReadiness ==
    /\ entry = "checkReadiness"
    /\ args = NoArgs
    /\ pc = "cr_loop"
    /\ clamp = EmptyClamp
    /\ stack = <<>> /\ run = EmptyRun /\ he = EmptyHe /\ dp = EmptyDp
    /\ pt = EmptyPt /\ collected = <<>> /\ ex = EmptyEx /\ sel = EmptySel
    /\ helm = {}
    /\ probe = NoCheck /\ xp = NoExec /\ rs = NoRetry /\ mn = NoMain /\ snap = NoSnap
    /\ \E label \in {CHROME_NODE_POD_LABEL, CONTROLLER_POD_LABEL},
          minReady \in MinReadyArgs :
           cr = [EmptyCr EXCEPT !.label = label, !.minReady = minReady]

\* orchestrator._checkChromeNodeStatus(dnsName, controllerPodName), the
\* probe command coming to any of the replies.
InitProbe ==
    /\ entry = "_checkChromeNodeStatus"
    /\ args = NoArgs
    /\ pc = "probe"
    /\ clamp = EmptyClamp
    /\ stack = <<>> /\ run = EmptyRun /\ he = EmptyHe /\ dp = EmptyDp
    /\ cr = EmptyCr /\ pt = EmptyPt /\ collected = <<>> /\ ex = EmptyEx
    /\ sel = EmptySel /\ helm = {} /\ xp = NoExec /\ rs = NoRetry /\ mn = NoMain /\ snap = NoSnap
    /\ probe \in [reply : ProbeReplies, status : {Unavailable},
                  done : {FALSE}]

\* orchestrator._execInPod(podName, command): opening the stream works or
\* raises; the remote command finishes after some seconds with an exit code
\* and an output, closing the stream, or never finishes.
InitExec ==
    /\ entry = "_execInPod"
    /\ args = NoArgs
    /\ pc = "exec"
    /\ clamp = EmptyClamp
    /\ stack = <<>> /\ run = EmptyRun /\ he = EmptyHe /\ dp = EmptyDp
    /\ cr = EmptyCr /\ pt = EmptyPt /\ collected = <<>> /\ ex = EmptyEx
    /\ sel = EmptySel /\ helm = {} /\ probe = NoCheck
    /\ xp \in [fault : {"none", "ApiException", "Exception"},
               finishes : BOOLEAN, lasts : 0..MaxWait, rc : {0, 1},
               stdout : {<<>>, <<"o", "k">>}, waited : {0},
               returned : {FALSE}, ret : {NoResult}]
    /\ snap = NoSnap /\ mn = NoMain /\ rs = NoRetry

\* orchestrator.passTestCases() on a fresh object, called once or more.
InitCollect ==
    /\ entry = "passTestCases"
    /\ args = NoArgs
    /\ pc = "ptc_find"
    /\ clamp = EmptyClamp
    /\ stack = <<>> /\ run = EmptyRun /\ he = EmptyHe /\ dp = EmptyDp
    /\ cr = EmptyCr /\ pt = [EmptyPt EXCEPT !.calls = 1, !.attempt = 1]
    /\ collected = <<>> /\ ex = EmptyEx /\ sel = EmptySel /\ helm = {} /\ probe = NoCheck
    /\ xp = NoExec /\ rs = NoRetry /\ mn = NoMain /\ snap = NoSnap

\* orchestrator._isPodReady(pod) on any snapshot: a phase and up to
\* MaxContainers container statuses (none: container_statuses is None or
\* empty).
InitSnapshot ==
    /\ entry = "_isPodReady"
    /\ args = NoArgs
    /\ pc = "snapshot"
    /\ clamp = EmptyClamp
    /\ stack = <<>> /\ run = EmptyRun /\ he = EmptyHe /\ dp = EmptyDp
    /\ cr = EmptyCr /\ pt = EmptyPt /\ collected = <<>> /\ ex = EmptyEx
    /\ sel = EmptySel /\ helm = {} /\ probe = NoCheck /\ xp = NoExec /\ rs = NoRetry
    /\ mn = NoMain
    /\ \E phase \in PodPhases,
          cs \in UNION {[1..n -> BOOLEAN] : n \in 0..MaxContainers} :
           snap = [NoSnap EXCEPT !.pod = Pod(WorkerName(1), <<phase, cs>>)]

\* orchestrator._validateNodeCount(n)
InitClamp ==
    /\ entry = "_validateNodeCount"
    /\ args = NoArgs
    /\ pc = "clamp"
    /\ clamp \in [n : (-ClampRange)..ClampRange, out : {0}, done : {FALSE}]
    /\ InitFrames

\* What the parser makes of the command line: the options parse ("ok"), an
\* option is unknown or --node-count is no integer ("invalid"), or -h/--help
\* is among them ("help").
CommandLines == {"ok", "invalid", "help"}

\* The step flags, each a store_true option of its own.
StepFlags == [status : BOOLEAN, deploy : BOOLEAN, checkReadiness : BOOLEAN,
              passTestCases : BOOLEAN, executeTests : BOOLEAN]

\* Whether the options select the deploy step or the full run, the two
\* branches of main that read --helm-chart-path, --node-count and
\* --skip-deploy.
ReadsChartOptions(flags) ==
    ~flags.status /\ (flags.deploy \/ (~flags.checkReadiness
                                         /\ ~flags.passTestCases
                                         /\ ~flags.executeTests))

\* main() on any command line.  The chart and node-count options are left
\* at their NoArgs values in the invocations that never read them, and
\* --skip-deploy is read by the full run alone.
InitMain ==
    /\ entry = "main"
    /\ pc = "main"
    /\ clamp = EmptyClamp
    /\ stack = <<>> /\ run = EmptyRun /\ he = EmptyHe /\ dp = EmptyDp
    /\ cr = EmptyCr /\ pt = EmptyPt /\ collected = <<>> /\ ex = EmptyEx
    /\ sel = EmptySel /\ helm = {} /\ probe = NoCheck /\ xp = NoExec /\ rs = NoRetry
    /\ snap = NoSnap
    /\ mn \in [cmdline : CommandLines, flags : StepFlags,
                kubeconfig : BOOLEAN, chromeReady : {FALSE},
                steps : {<<>>}, listed : {FALSE}, interrupted : {FALSE},
                caught : {FALSE}, exited : {FALSE}, code : {0}]
    /\ args \in [helmChartPath : ChartPaths, nodeCount : NodeCountArgs,
                 skipDeploy : BOOLEAN, chartExists : BOOLEAN,
                 MAX_RETRIES : {MAX_RETRIES}]
    /\ args.chartExists => args.helmChartPath # NoPath /\ ~args.skipDeploy
    /\ mn.flags.deploy => ~args.skipDeploy
    /\ mn.cmdline # "ok" \/ ~mn.kubeconfig \/ ~ReadsChartOptions(mn.flags)
           => args = NoArgs

\* The values of MAX_RETRIES the environment configures: a negative one,
\* zero, and one.
RetrySettings == {-1, 0, 1}

\* One of the retried operations (deploy, passTestCases, executeTests,
\* handleErrors on any operation) is called on a fresh object, under any of
\* the configured values of MAX_RETRIES.
InitConfigured ==
    /\ entry \in {"deploy", "passTestCases", "executeTests", "handleErrors"}
    /\ pc = CASE entry = "deploy" -> "deploy"
              [] entry = "passTestCases" -> "ptc_find"
              [] entry = "executeTests" -> "ex_find"
              [] entry = "handleErrors" -> "he_enter"
    /\ \E m \in RetrySettings :
           IF entry = "deploy"
           THEN args \in [helmChartPath : ChartPaths \ {NoPath},
                          nodeCount : {DEFAULT_NODE_COUNT},
                          skipDeploy : {FALSE}, chartExists : BOOLEAN,
                          MAX_RETRIES : {m}]
           ELSE args = [NoArgs EXCEPT !.MAX_RETRIES = m]
    /\ clamp = EmptyClamp
    /\ stack = <<>>
    /\ run = [EmptyRun EXCEPT !.effectiveNodeCount = args.nodeCount]
    /\ pt = IF entry = "passTestCases"
            THEN [EmptyPt EXCEPT !.calls = 1, !.attempt = 1]
            ELSE EmptyPt
    /\ he = EmptyHe /\ dp = EmptyDp /\ cr = EmptyCr /\ collected = <<>>
    /\ ex = EmptyEx /\ sel = EmptySel /\ helm = {} /\ probe = NoCheck
    /\ xp = NoExec /\ snap = NoSnap /\ mn = NoMain /\ rs = NoRetry

\* The delays between attempts retryOnStaleElement is configured with, in
\* half seconds (the default is 0.5 s).
StaleDelays == {0, 1}

\* A function wrapped by retryOnStaleElement(maxAttempts, delay) is called.
InitStale ==
    /\ entry = "retryOnStaleElement"
    /\ args = NoArgs
    /\ pc = "rs_loop"
    /\ clamp = EmptyClamp
    /\ stack = <<>> /\ run = EmptyRun /\ he = EmptyHe /\ dp = EmptyDp
    /\ cr = EmptyCr /\ pt = EmptyPt /\ collected = <<>> /\ ex = EmptyEx
    /\ sel = EmptySel /\ helm = {} /\ probe = NoCheck /\ xp = NoExec
    /\ snap = NoSnap /\ mn = NoMain
    /\ \E m \in 0..MaxAttempts, d \in StaleDelays :
           rs = [NoRetry EXCEPT !.maxAttempts = m, !.delay = d]

\* A return to the caller: the label on top of the stack, "done" at the top.
ReturnPc == IF stack = <<>> THEN "done" ELSE Head(stack)
ReturnStack == IF stack = <<>> THEN <<>> ELSE Tail(stack)

\* An exception nothing on the call stack catches: none of run,
\* checkReadiness, passTestCases, executeTests, _getAvailableChromeNode and
\* getPodStatus has a handler around its pod listings, so the exception
\* leaves the method that was called.
Raised == pc' = "raised" /\ stack' = <<>>

(***************************************************************************)
(* _validateNodeCount, called on its own.                                  *)
(***************************************************************************)
ValidateNodeCount ==
    /\ pc = "clamp"
    /\ clamp' = [clamp EXCEPT !.out = _validateNodeCount(clamp.n),
                              !.done = TRUE]
    /\ pc' = "done"
    /\ UNCHANGED <<entry, args, stack, run, he, dp, cr, pt, collected, ex, sel,
                   helm, probe, xp, snap, mn, rs>>

(***************************************************************************)
(* _isPodReady, called on its own.                                         *)
(***************************************************************************)
IsPodReady ==
    /\ pc = "snapshot"
    /\ snap' = [snap EXCEPT !.out = _isPodReady(snap.pod), !.done = TRUE]
    /\ pc' = "done"
    /\ UNCHANGED <<entry, args, stack, run, he, dp, cr, pt, collected, ex, sel,
                   helm, clamp, probe, xp, mn, rs>>

(***************************************************************************)
(* _checkChromeNodeStatus, called on its own.                              *)
(***************************************************************************)
CheckChromeNodeStatus ==
    /\ pc = "probe"
    /\ probe' = [probe EXCEPT !.status = _checkChromeNodeStatus(probe.reply),
                              !.done = TRUE]
    /\ pc' = "done"
    /\ UNCHANGED <<entry, args, stack, run, he, dp, cr, pt, collected, ex, sel,
                   helm, clamp, xp, snap, mn, rs>>

\* A variant that waits longer after each failed attempt.
BackoffWait(attempt) == RETRY_DELAY * attempt

\* time.sleep(RETRY_DELAY) after a failed attempt that is not the last: the
\* seconds slept.
RetryWait(attempt) == RETRY_DELAY

(***************************************************************************)
(* _execInPod, called on its own, with its wait on the stream.             *)
(***************************************************************************)
\* resp = stream(...): an exception is turned into (1, "", str(e)).
ExecInPodOpen ==
    /\ pc = "exec"
    /\ IF xp.fault # "none"
       THEN /\ xp' = [xp EXCEPT
                        !.returned = TRUE,
                        !.ret = _execInPod(TRUE, xp.rc, xp.stdout, <<>>)]
            /\ pc' = "done"
       ELSE /\ xp' = xp
            /\ pc' = "exec_check"
    /\ UNCHANGED <<entry, args, stack, run, he, dp, cr, pt, collected, ex, sel,
                   helm, clamp, probe, snap, mn, rs>>

\* while resp.is_open(): the stream is open until the remote command has
\* finished; once closed, the exit code and the output are returned.
ExecInPodCheck ==
    /\ pc = "exec_check"
    /\ IF ~xp.finishes \/ xp.waited < xp.lasts
       THEN /\ xp' = xp
            /\ pc' = "exec_update"
       ELSE /\ xp' = [xp EXCEPT
                        !.returned = TRUE,
                        !.ret = _execInPod(FALSE, xp.rc, xp.stdout, <<>>)]
            /\ pc' = "done"
    /\ UNCHANGED <<entry, args, stack, run, he, dp, cr, pt, collected, ex, sel,
                   helm, clamp, probe, snap, mn, rs>>

\* resp.update(timeout=1) and the reads: a second of waiting (counted up to
\* MaxWait).
ExecInPodUpdate ==
    /\ pc = "exec_update"
    /\ xp' = [xp EXCEPT !.waited = IF @ < MaxWait THEN @ + 1 ELSE @]
    /\ pc' = "exec_check"
    /\ UNCHANGED <<entry, args, stack, run, he, dp, cr, pt, collected, ex, sel,
                   helm, clamp, probe, snap, mn, rs>>

(***************************************************************************)
(* handleErrors(operation, operationFunc, *args)                           *)
(***************************************************************************)
\* A variant that goes by the truth value of a result that is neither a
\* bool nor a non-empty tuple: None, [], () and 0 are all false.
GoesByTruthValue(result) ==
    IF result.t = "raise" THEN FALSE
    ELSE IF result.t = "bool" THEN result.v
    ELSE IF result.t = "tuple" THEN result.v
    ELSE FALSE

\* A variant that lets an exception pass for a success.
TreatsRaiseAsSuccess(result) ==
    IF result.t = "bool" THEN result.v
    ELSE IF result.t = "tuple" THEN result.v
    ELSE TRUE

\* What handleErrors makes of one call's outcome: TRUE to return
\* (True, result), FALSE to count the attempt as failed.
HandleResult(result) ==
    IF result.t = "raise" THEN FALSE
    ELSE IF result.t = "bool" THEN result.v
    ELSE IF result.t = "tuple" THEN result.v
    ELSE TRUE

\* Entry, with an operation of the caller's.
HandleErrorsEnter ==
    /\ pc = "he_enter"
    /\ IF 1 <= args.MAX_RETRIES
       THEN /\ he' = [EmptyHe EXCEPT !.op = "any", !.attempt = 1]
            /\ pc' = "he_try"
            /\ stack' = stack
       ELSE /\ he' = [EmptyHe EXCEPT !.op = "any", !.returned = TRUE]
            /\ pc' = ReturnPc
            /\ stack' = ReturnStack
    /\ UNCHANGED <<entry, args, run, dp, cr, pt, collected, ex, sel, helm,
                   clamp, probe, xp, snap, mn, rs>>

\* result = operationFunc(*args): any operation.
HandleErrorsCallAny ==
    /\ pc = "he_try"
    /\ he.op = "any"
    /\ \E result \in OpOutcomes :
           he' = [he EXCEPT !.results = Append(@, result)]
    /\ pc' = "he_result"
    /\ UNCHANGED <<entry, args, stack, run, dp, cr, pt, collected, ex, sel,
                   helm, clamp, probe, xp, snap, mn, rs>>

\* result = self.deploy(helmChartPath, effectiveNodeCount, valuesFile)
HandleErrorsCallDeploy ==
    /\ pc = "he_try"
    /\ he.op = "deploy"
    /\ pc' = "deploy"
    /\ stack' = <<"he_deployed">> \o stack
    /\ UNCHANGED <<entry, args, run, he, dp, cr, pt, collected, ex, sel, helm,
                   clamp, probe, xp, snap, mn, rs>>

\* deploy has returned its bool.
HandleErrorsDeployed ==
    /\ pc = "he_deployed"
    /\ he' = [he EXCEPT !.results = Append(@, PyBool(dp.ret))]
    /\ pc' = "he_result"
    /\ UNCHANGED <<entry, args, stack, run, dp, cr, pt, collected, ex, sel,
                   helm, clamp, probe, xp, snap, mn, rs>>

\* The rest of the attempt: return on success, else sleep and try again,
\* or give up after MAX_RETRIES attempts.
HandleErrorsResult ==
    /\ pc = "he_result"
    /\ LET result == he.results[Len(he.results)]
       IN  IF HandleResult(result)
           THEN /\ he' = [he EXCEPT !.returned = TRUE, !.ok = TRUE,
                                    !.result = result]
                /\ pc' = ReturnPc
                /\ stack' = ReturnStack
           ELSE IF he.attempt < args.MAX_RETRIES
           THEN /\ he' = [he EXCEPT !.attempt = @ + 1, !.sleeps = @ + 1,
                                    !.slept = @ + RetryWait(he.attempt)]
                /\ pc' = "he_try"
                /\ stack' = stack
           ELSE /\ he' = [he EXCEPT !.returned = TRUE, !.ok = FALSE,
                                    !.result = PyNone]
                /\ pc' = ReturnPc
                /\ stack' = ReturnStack
    /\ UNCHANGED <<entry, args, run, dp, cr, pt, collected, ex, sel, helm,
                   clamp, probe, xp, snap, mn, rs>>

(***************************************************************************)
(* deploy(helmChartPath, nodeCount, valuesFile)                            *)
(***************************************************************************)
\* What one run of the helm command comes to: it exits with a status,
\* having written to stderr or not, runs into the subprocess timeout, or
\* cannot be started.
HelmOutcomes ==
    {[kind |-> "exit", rc |-> c, stderr |-> e] :
         c \in {0, 1}, e \in BOOLEAN}
        \cup {[kind |-> k, rc |-> 0, stderr |-> FALSE] :
                  k \in {"timeout", "oserror"}}

\* A variant that takes the status of a command that never exited for 0.
StatusOfUnfinished(outcome) == outcome.rc

\* _runCommand: the exit status, 1 for a timeout or any other exception.
_runCommand(outcome) == IF outcome.kind = "exit" THEN outcome.rc ELSE 1

\* A variant that sets the autoscaler's maximum to the node count too.
CapsAtNodeCount(nodeCount) ==
    [replicaCount |-> nodeCount, minReplicas |-> nodeCount,
     maxReplicas |-> nodeCount]

\* The --set arguments of the helm command.
HelmCommand(nodeCount) ==
    [replicaCount |-> nodeCount, minReplicas |-> nodeCount,
     maxReplicas |-> MAX_NODE_COUNT]

\* A variant that does not look for the chart before the retry loop.
DeploysUnseenChart ==
    /\ pc = "deploy"
    /\ dp' = [dp EXCEPT
                 !.nodeCount = _validateNodeCount(run.effectiveNodeCount),
                 !.attempt = 1, !.log = <<>>, !.sleeps = 0, !.slept = 0,
                 !.returned = FALSE, !.ret = FALSE]
    /\ pc' = "deploy_run"
    /\ stack' = stack
    /\ UNCHANGED <<entry, args, run, he, cr, pt, collected, ex, sel, helm,
                   clamp, probe, xp, snap, mn, rs>>

\* Up to the retry loop: the node count is clamped, a missing chart ends it.
DeployEnter ==
    /\ pc = "deploy"
    /\ IF ~args.chartExists \/ args.MAX_RETRIES < 1
       THEN /\ dp' = [dp EXCEPT
                         !.nodeCount = _validateNodeCount(run.effectiveNodeCount),
                         !.attempt = 0, !.log = <<>>, !.sleeps = 0,
                         !.slept = 0,
                         !.returned = TRUE, !.ret = FALSE]
            /\ pc' = ReturnPc
            /\ stack' = ReturnStack
       ELSE /\ dp' = [dp EXCEPT
                         !.nodeCount = _validateNodeCount(run.effectiveNodeCount),
                         !.attempt = 1, !.log = <<>>, !.sleeps = 0,
                         !.slept = 0,
                         !.returned = FALSE, !.ret = FALSE]
            /\ pc' = "deploy_run"
            /\ stack' = stack
    /\ UNCHANGED <<entry, args, run, he, cr, pt, collected, ex, sel, helm,
                   clamp, probe, xp, snap, mn, rs>>

\* A variant of deploy without a loop of its own: one run of helm decides.
DeploysOnce ==
    /\ pc = "deploy_run"
    /\ \E outcome \in HelmOutcomes :
         dp' = [dp EXCEPT !.log = Append(@, outcome), !.returned = TRUE,
                          !.ret = (_runCommand(outcome) = 0)]
    /\ pc' = ReturnPc
    /\ stack' = ReturnStack
    /\ helm' = helm \cup {HelmCommand(dp.nodeCount)}
    /\ he' = IF he.op = "deploy" THEN [he EXCEPT !.invoked = @ + 1] ELSE he
    /\ UNCHANGED <<entry, args, run, cr, pt, collected, ex, sel, clamp, probe,
                   xp, snap, mn, rs>>

\* One attempt: run helm; exit status 0 returns True, anything else sleeps
\* and tries again, or returns False after MAX_RETRIES attempts.
DeployRun ==
    /\ pc = "deploy_run"
    /\ \E outcome \in HelmOutcomes :
         LET returnCode == _runCommand(outcome)
             logged == [dp EXCEPT !.log = Append(@, outcome)]
         IN  IF returnCode = 0
             THEN /\ dp' = [logged EXCEPT !.returned = TRUE, !.ret = TRUE]
                  /\ pc' = ReturnPc
                  /\ stack' = ReturnStack
             ELSE IF dp.attempt < args.MAX_RETRIES
             THEN /\ dp' = [logged EXCEPT !.attempt = @ + 1,
                                          !.sleeps = @ + 1,
                                          !.slept = @ + RetryWait(dp.attempt)]
                  /\ pc' = "deploy_run"
                  /\ stack' = stack
             ELSE /\ dp' = [logged EXCEPT !.returned = TRUE, !.ret = FALSE]
                  /\ pc' = ReturnPc
                  /\ stack' = ReturnStack
    /\ helm' = helm \cup {HelmCommand(dp.nodeCount)}
    /\ he' = IF he.op = "deploy" THEN [he EXCEPT !.invoked = @ + 1] ELSE he
    /\ UNCHANGED <<entry, args, run, cr, pt, collected, ex, sel, clamp, probe,
                   xp, snap, mn, rs>>

(***************************************************************************)
(* checkReadiness(labelSelector, minReady)                                 *)
(***************************************************************************)
\* The answers of list_namespaced_pod for a label.
ListedPods(label) ==
    IF label = CHROME_NODE_POD_LABEL
    THEN {WorkerPods(l) : l \in WorkerLists}
    ELSE {ControllerPods(l) : l \in ControllerLists}

\* sum(1 for pod in pods if self._isPodReady(pod))
ReadyCount(pods) == Cardinality({i \in 1..Len(pods) : _isPodReady(pods[i])})

\* What the API answered to a listing: an API error, no pod, or pods (the
\* answer is "exception" when the call fails otherwise).
Answer(fault, items) ==
    IF fault # "none" THEN "error"
    ELSE IF items = <<>> THEN "empty" ELSE "pods"

\* The ready pods in the API's answer; an error answers with none.
ReadyInAnswer(fault, items) == IF fault # "none" THEN 0 ELSE ReadyCount(items)

\* A variant that wants more than minReady ready pods.
ReachedStrictly(readyCount, minReady) == readyCount > minReady

\* readyCount >= minReady
Reached(readyCount, minReady) == readyCount >= minReady

\* The frame of a call: startTime = time.time().
CheckReadinessFrame(label, minReady) ==
    [EmptyCr EXCEPT !.label = label, !.minReady = minReady]

\* One turn of the loop, entered while time.time() - startTime is below the
\* timeout: list the pods (the call takes d seconds, an API error lists
\* nothing, another exception leaves the call), count the ready ones, return
\* True or sleep the interval.  slow records that some listing took time,
\* answer and ready what the API answered at this poll.
CheckReadinessPoll ==
    /\ pc = "cr_loop"
    /\ cr.elapsed < READINESS_TIMEOUT
    /\ \/ /\ \E fault \in ListFaults : Escapes(fault)
          /\ Raised
          /\ cr' = [cr EXCEPT !.answer = "exception", !.ready = 0]
       \/ \E fault \in CaughtListFaults, items \in ListedPods(cr.label),
             d \in {0, MaxLatency} :
            LET pods == _getPodsByLabel(fault, items)
                readyCount == ReadyCount(pods)
                polled == [cr EXCEPT !.at = cr.elapsed,
                                     !.hit = @ \/ readyCount >= cr.minReady,
                                     !.slow = @ \/ d > 0,
                                     !.answer = Answer(fault, items),
                                     !.ready = ReadyInAnswer(fault, items)]
            IN  IF Reached(readyCount, cr.minReady)
                THEN /\ cr' = [polled EXCEPT !.elapsed = @ + d,
                                             !.returned = TRUE, !.ret = TRUE]
                     /\ pc' = ReturnPc
                     /\ stack' = ReturnStack
                ELSE /\ cr' = [polled EXCEPT
                                  !.elapsed = @ + d + READINESS_CHECK_INTERVAL]
                     /\ pc' = "cr_loop"
                     /\ stack' = stack
    /\ UNCHANGED <<entry, args, run, he, dp, pt, collected, ex, sel, helm,
                   clamp, probe, xp, snap, mn, rs>>

\* The loop's condition fails: the timeout has elapsed.
CheckReadinessTimeout ==
    /\ pc = "cr_loop"
    /\ cr.elapsed >= READINESS_TIMEOUT
    /\ cr' = [cr EXCEPT !.returned = TRUE, !.ret = FALSE]
    /\ pc' = ReturnPc
    /\ stack' = ReturnStack
    /\ UNCHANGED <<entry, args, run, he, dp, pt, collected, ex, sel, helm,
                   clamp, probe, xp, snap, mn, rs>>

(***************************************************************************)
(* passTestCases()                                                         *)
(***************************************************************************)
\* What `pytest --collect-only -q` prints in the controller pod.
CollectOutputs ==
    {\* 't.py::a\nt.py::b\n2 tests'
     <<"t",".","p","y",":",":","a","\n","t",".","p","y",":",":","b","\n","2"," ","t","e","s","t","s">>,
     \* ' t.py::a \n= b::c =\n\tt.py::b\n'
     <<" ","t",".","p","y",":",":","a"," ","\n","="," ","b",":",":","c"," ","=","\n","\t","t",".","p","y",":",":","b","\n">>,
     \* '= t.py::a ='
     <<"="," ","t",".","p","y",":",":","a"," ","=">>,
     \* '- t::x'
     <<"-"," ","t",":",":","x">>,
     \* 'no tests ran'
     <<"n","o"," ","t","e","s","t","s"," ","r","a","n">>,
     \* ''
     <<>>}

CollectReplies ==
    {[fault |-> TRUE, rc |-> 0, stdout |-> <<>>]}
        \cup {[fault |-> FALSE, rc |-> c, stdout |-> o] :
                  c \in {0, 2}, o \in CollectOutputs}

\* line and "::" in line and not line.startswith(("=", "-", " "))
IsTestCase(line) ==
    /\ line # <<>>
    /\ Contains(line, SEPARATOR)
    /\ ~(StartsWith(line, <<"=">>) \/ StartsWith(line, <<"-">>)
            \/ StartsWith(line, <<" ">>))

\* A variant that tests the lines as printed, without strip().
ParsesUnstripped(stdout) == SelectSeq(SplitLines(stdout), IsTestCase)

\* The stripped lines of the output that are test identifiers, in order.
ParseTestCases(stdout) ==
    LET lines == SplitLines(stdout)
        stripped == [i \in 1..Len(lines) |-> Strip(lines[i])]
    IN  SelectSeq(stripped, IsTestCase)

\* Whether some line of an output holds the separator.
HasSeparatorLine(stdout) ==
    \E i \in 1..Len(SplitLines(stdout)) :
        Contains(SplitLines(stdout)[i], SEPARATOR)

PassTestCasesFrame == [EmptyPt EXCEPT !.calls = 1, !.attempt = 1]

\* The start of an attempt: find the controller pod.  Without one the
\* attempt is over: sleep and try again, or return [] on the last attempt.
\* When range(1, MAX_RETRIES + 1) is empty the loop is not entered: [] is
\* stored and returned.
PassTestCasesFind ==
    /\ pc = "ptc_find"
    /\ IF args.MAX_RETRIES < 1
       THEN /\ pt' = [pt EXCEPT !.attempt = 0, !.returned = TRUE,
                                !.ret = <<>>]
            /\ collected' = <<>>
            /\ pc' = ReturnPc
            /\ stack' = ReturnStack
       ELSE /\ collected' = collected
            /\ \/ /\ \E fault \in ListFaults : Escapes(fault)
                     /\ Raised
                     /\ pt' = pt
                  \/ \E fault \in CaughtListFaults, items \in ListedPods(CONTROLLER_POD_LABEL) :
                       LET controllerPodName == _getPodName(_getPodsByLabel(fault, items))
                           logged == [pt EXCEPT
                                         !.log = Append(@, [found |-> FALSE,
                                                            sep |-> FALSE, rc |-> 0,
                                                            stdout |-> <<>>])]
                       IN  IF controllerPodName = None
                           THEN IF pt.attempt < args.MAX_RETRIES
                                THEN /\ pt' = [logged EXCEPT
                                                  !.attempt = @ + 1, !.sleeps = @ + 1,
                                                  !.slept = @ + RetryWait(pt.attempt)]
                                     /\ pc' = "ptc_find"
                                     /\ stack' = stack
                                ELSE /\ pt' = [logged EXCEPT !.returned = TRUE, !.ret = <<>>]
                                     /\ pc' = ReturnPc
                                     /\ stack' = ReturnStack
                           ELSE /\ pt' = [pt EXCEPT
                                              !.controller = controllerPodName,
                                              !.podReady = _isPodReady(items[1]),
                                              !.readyListed = ReadyCount(items)]
                                /\ pc' = "ptc_exec"
                                /\ stack' = stack
    /\ UNCHANGED <<entry, args, run, he, dp, cr, ex, sel, helm, clamp, probe,
                   xp, snap, mn, rs>>

\* The rest of the attempt: run the collection in the pod and parse what it
\* prints.  Identifiers end the call; none means sleep and try again, or,
\* after the last attempt, store and return [].
PassTestCasesExec ==
    /\ pc = "ptc_exec"
    /\ \E reply \in CollectReplies :
         LET r == _execInPod(reply.fault, reply.rc, reply.stdout, <<>>)
             testCases == ParseTestCases(r.stdout)
             logged == [pt EXCEPT
                           !.log = Append(@, [found |-> TRUE,
                                              sep |-> HasSeparatorLine(r.stdout),
                                              rc |-> r.rc,
                                              stdout |-> r.stdout])]
         IN  IF testCases # <<>>
             THEN /\ collected' = testCases
                  /\ pt' = [logged EXCEPT !.returned = TRUE, !.ret = testCases]
                  /\ pc' = ReturnPc
                  /\ stack' = ReturnStack
             ELSE IF pt.attempt < args.MAX_RETRIES
             THEN /\ collected' = collected
                  /\ pt' = [logged EXCEPT
                               !.attempt = @ + 1, !.sleeps = @ + 1,
                               !.slept = @ + RetryWait(pt.attempt)]
                  /\ pc' = "ptc_find"
                  /\ stack' = stack
             ELSE /\ collected' = <<>>
                  /\ pt' = [logged EXCEPT !.returned = TRUE, !.ret = <<>>]
                  /\ pc' = ReturnPc
                  /\ stack' = ReturnStack
    /\ UNCHANGED <<entry, args, run, he, dp, cr, ex, sel, helm, clamp, probe,
                   xp, snap, mn, rs>>

\* passTestCases is called once more on the same object.
PassTestCasesAgain ==
    /\ entry = "passTestCases"
    /\ pc = "done"
    /\ pt.calls < MaxCalls
    /\ pt' = [PassTestCasesFrame EXCEPT !.calls = pt.calls + 1]
    /\ pc' = "ptc_find"
    /\ UNCHANGED <<entry, args, stack, run, he, dp, cr, collected, ex, sel,
                   helm, clamp, probe, xp, snap, mn, rs>>

(***************************************************************************)
(* _getAvailableChromeNode()                                               *)
(***************************************************************************)
\* The controller pod the probes are run in.
SelectFindController ==
    /\ pc = "sel_find"
    /\ \/ /\ \E fault \in ListFaults : Escapes(fault)
          /\ Raised
          /\ sel' = sel
       \/ \E fault \in CaughtListFaults, items \in ListedPods(CONTROLLER_POD_LABEL) :
            LET controllerPodName == _getPodName(_getPodsByLabel(fault, items))
            IN  IF controllerPodName = None
                THEN /\ sel' = [sel EXCEPT !.returned = TRUE, !.ret = None]
                     /\ pc' = ReturnPc
                     /\ stack' = ReturnStack
                ELSE /\ sel' = [sel EXCEPT !.controller = controllerPodName]
                     /\ pc' = "sel_list"
                     /\ stack' = stack
    /\ UNCHANGED <<entry, args, run, he, dp, cr, pt, collected, ex, helm,
                   clamp, probe, xp, snap, mn, rs>>

\* The worker pods, in the order the API lists them.
SelectListWorkers ==
    /\ pc = "sel_list"
    /\ \/ /\ \E fault \in ListFaults : Escapes(fault)
          /\ Raised
          /\ sel' = sel
       \/ \E fault \in CaughtListFaults, items \in ListedPods(CHROME_NODE_POD_LABEL) :
            LET pods == _getPodsByLabel(fault, items)
            IN  IF pods = <<>>
                THEN /\ sel' = [sel EXCEPT !.returned = TRUE, !.ret = None]
                     /\ pc' = ReturnPc
                     /\ stack' = ReturnStack
                ELSE /\ sel' = [sel EXCEPT !.pods = pods, !.idx = 1]
                     /\ pc' = "sel_loop"
                     /\ stack' = stack
    /\ UNCHANGED <<entry, args, run, he, dp, cr, pt, collected, ex, helm,
                   clamp, probe, xp, snap, mn, rs>>

\* for pod in pods: a pod that is not ready is passed over.
SelectSkip ==
    /\ pc = "sel_loop"
    /\ sel.idx <= Len(sel.pods)
    /\ ~_isPodReady(sel.pods[sel.idx])
    /\ sel' = [sel EXCEPT !.idx = @ + 1, !.last = NoProbe]
    /\ UNCHANGED <<entry, args, pc, stack, run, he, dp, cr, pt, collected, ex,
                   helm, clamp, probe, xp, snap, mn, rs>>

\* A variant that gives the search up at a probe that brought no status.
GivesUpOnFailedProbe ==
    /\ pc = "sel_loop"
    /\ sel.idx <= Len(sel.pods)
    /\ _isPodReady(sel.pods[sel.idx])
    /\ \E reply \in ProbeReplies :
         LET dnsName == _getChromeNodeDns(sel.pods[sel.idx].name)
             status == _checkChromeNodeStatus(reply)
             probed == [sel EXCEPT !.probes = Append(@,
                           [idx |-> sel.idx,
                            available |-> status.available,
                            answered |-> Answered(reply),
                            ready |-> status.ready,
                            fits |-> ActiveSessions(BodyNodes(reply.body))
                                       < Capacity(BodyNodes(reply.body))]),
                         !.last =
                           [status |-> status,
                            active |-> ActiveSessions(BodyNodes(reply.body)),
                            capacity |-> Capacity(BodyNodes(reply.body))]]
         IN  IF status.available \/ ~Answered(reply)
             THEN /\ sel' = [probed EXCEPT
                               !.returned = TRUE,
                               !.ret = IF status.available THEN dnsName
                                       ELSE None]
                  /\ pc' = ReturnPc
                  /\ stack' = ReturnStack
             ELSE /\ sel' = [probed EXCEPT !.idx = @ + 1]
                  /\ pc' = "sel_loop"
                  /\ stack' = stack
    /\ UNCHANGED <<entry, args, run, he, dp, cr, pt, collected, ex, helm,
                   clamp, probe, xp, snap, mn, rs>>

\* A ready pod is probed; it is returned when its status is available.
SelectProbe ==
    /\ pc = "sel_loop"
    /\ sel.idx <= Len(sel.pods)
    /\ _isPodReady(sel.pods[sel.idx])
    /\ \E reply \in ProbeReplies :
         LET dnsName == _getChromeNodeDns(sel.pods[sel.idx].name)
             status == _checkChromeNodeStatus(reply)
             probed == [sel EXCEPT !.probes = Append(@,
                           [idx |-> sel.idx,
                            available |-> status.available,
                            answered |-> Answered(reply),
                            ready |-> status.ready,
                            fits |-> ActiveSessions(BodyNodes(reply.body))
                                       < Capacity(BodyNodes(reply.body))]),
                         !.last =
                           [status |-> status,
                            active |-> ActiveSessions(BodyNodes(reply.body)),
                            capacity |-> Capacity(BodyNodes(reply.body))]]
         IN  IF status.available
             THEN /\ sel' = [probed EXCEPT !.returned = TRUE, !.ret = dnsName]
                  /\ pc' = ReturnPc
                  /\ stack' = ReturnStack
             ELSE /\ sel' = [probed EXCEPT !.idx = @ + 1]
                  /\ pc' = "sel_loop"
                  /\ stack' = stack
    /\ UNCHANGED <<entry, args, run, he, dp, cr, pt, collected, ex, helm,
                   clamp, probe, xp, snap, mn, rs>>

\* The loop is over and no pod was available.
SelectNone ==
    /\ pc = "sel_loop"
    /\ sel.idx > Len(sel.pods)
    /\ sel' = [sel EXCEPT !.returned = TRUE, !.ret = None, !.last = NoProbe]
    /\ pc' = ReturnPc
    /\ stack' = ReturnStack
    /\ UNCHANGED <<entry, args, run, he, dp, cr, pt, collected, ex, helm,
                   clamp, probe, xp, snap, mn, rs>>

(***************************************************************************)
(* executeTests(testPath = "tests/", specificTests = None)                 *)
(***************************************************************************)
\* What the pytest run prints in the controller pod.
TestOutputs ==
    {\* '2 passed in 1.5s'
     <<"2"," ","p","a","s","s","e","d"," ","i","n"," ","1",".","5","s">>,
     \* '1 PASSED'
     <<"1"," ","P","A","S","S","E","D">>,
     \* 'Tests passed, 0 failed'
     <<"T","e","s","t","s"," ","p","a","s","s","e","d",","," ","0"," ","f","a","i","l","e","d">>,
     \* '1 Failed, 1 passed'
     <<"1"," ","F","a","i","l","e","d",","," ","1"," ","p","a","s","s","e","d">>,
     \* 'error'
     <<"e","r","r","o","r">>,
     \* ''
     <<>>}

TestReplies ==
    {[fault |-> TRUE, rc |-> 0, stdout |-> <<>>, stderr |-> <<>>]}
        \cup {[fault |-> FALSE, rc |-> c, stdout |-> o, stderr |-> e] :
                  c \in {0, 1}, o \in TestOutputs, e \in {<<>>, <<"E">>}}

MsgNoController == <<"Test Controller Pod not found">>
MsgNoNode == <<"No available Chrome Node">>

\* A variant that searches the output as printed, not lowercased.
SucceededCaseSensitive(returnCode, stdout) ==
    \/ returnCode = 0
    \/ Contains(stdout, PASSED) /\ ~Contains(stdout, FAILED)

\* A variant for which "passed" is enough, whatever else is printed.
SucceededIgnoringFailed(returnCode, stdout) ==
    \/ returnCode = 0
    \/ Contains(Lower(stdout), PASSED)

\* returnCode == 0, or
\* "passed" in stdout.lower() and "failed" not in stdout.lower()
AttemptSucceeded(returnCode, stdout) ==
    \/ returnCode = 0
    \/ Contains(Lower(stdout), PASSED) /\ ~Contains(Lower(stdout), FAILED)

\* The pytest command: the specific tests when given, else the test path.
TestCommand(testPath, specificTests) ==
    IF specificTests # <<>>
    THEN <<"python", "-m", "pytest">> \o specificTests
             \o <<"-v", "--tb=short", "-p", "no:cacheprovider">>
    ELSE <<"python", "-m", "pytest", testPath,
           "-v", "--tb=short", "-p", "no:cacheprovider">>

\* A variant that leaves the browser with its window.
EnvNotHeadless(availableNode) ==
    [HEADLESS |-> "false",
     REMOTE_URL |-> <<"http://", availableNode, ":4444">>]

\* envVars: HEADLESS and the selected node's address as REMOTE_URL.
EnvVars(availableNode) ==
    [HEADLESS |-> "true",
     REMOTE_URL |-> <<"http://", availableNode, ":4444">>]

\* The controller pod; without one the call returns (False, message).
ExecuteTestsFind ==
    /\ pc = "ex_find"
    /\ \/ /\ \E fault \in ListFaults : Escapes(fault)
          /\ Raised
          /\ ex' = ex
          /\ sel' = sel
       \/ \E fault \in CaughtListFaults, items \in ListedPods(CONTROLLER_POD_LABEL) :
            LET controllerPodName == _getPodName(_getPodsByLabel(fault, items))
            IN  IF controllerPodName = None
                THEN /\ ex' = [ex EXCEPT !.returned = TRUE, !.ok = FALSE,
                                         !.out = MsgNoController]
                     /\ pc' = ReturnPc
                     /\ stack' = ReturnStack
                     /\ sel' = sel
                ELSE /\ ex' = [ex EXCEPT !.controller = controllerPodName]
                     /\ sel' = EmptySel
                     /\ pc' = "sel_find"
                     /\ stack' = <<"ex_selected">> \o stack
    /\ UNCHANGED <<entry, args, run, he, dp, cr, pt, collected, helm, clamp,
                   probe, xp, snap, mn, rs>>

\* A variant that goes on to run the tests whatever the selection returned.
RunsWithoutNode ==
    /\ pc = "ex_selected"
    /\ ex' = [ex EXCEPT
                 !.node = sel.ret, !.attempt = 1,
                 !.command = TestCommand(ex.testPath, ex.specificTests)]
    /\ pc' = "ex_run"
    /\ stack' = stack
    /\ sel' = EmptySel
    /\ UNCHANGED <<entry, args, run, he, dp, cr, pt, collected, helm, clamp,
                   probe, xp, snap, mn, rs>>

\* availableNode = self._getAvailableChromeNode() has returned.  When
\* range(1, MAX_RETRIES + 1) is empty the loop is not entered, and the
\* `return False, stdout if stdout else stderr` after it reads stdout, a
\* local no statement has assigned: UnboundLocalError.
ExecuteTestsSelected ==
    /\ pc = "ex_selected"
    /\ IF sel.ret = None
       THEN /\ ex' = [ex EXCEPT !.returned = TRUE, !.ok = FALSE,
                                !.out = MsgNoNode]
            /\ pc' = ReturnPc
            /\ stack' = ReturnStack
       ELSE IF args.MAX_RETRIES < 1
       THEN /\ ex' = [ex EXCEPT
                         !.node = sel.ret,
                         !.command = TestCommand(ex.testPath, ex.specificTests),
                         !.error = "UnboundLocalError"]
            /\ Raised
       ELSE /\ ex' = [ex EXCEPT
                         !.node = sel.ret, !.attempt = 1,
                         !.command = TestCommand(ex.testPath, ex.specificTests)]
            /\ pc' = "ex_run"
            /\ stack' = stack
    /\ sel' = EmptySel
    /\ UNCHANGED <<entry, args, run, he, dp, cr, pt, collected, helm, clamp,
                   probe, xp, snap, mn, rs>>

\* One attempt: run the tests in the controller pod with HEADLESS and
\* REMOTE_URL set; return (True, stdout) on success, else sleep and try
\* again, or return (False, stdout if stdout else stderr) after the last.
ExecuteTestsRun ==
    /\ pc = "ex_run"
    /\ \E reply \in TestReplies :
         LET r == _execInPod(reply.fault, reply.rc, reply.stdout, reply.stderr)
             logged == [ex EXCEPT
                           !.log = Append(@, [rc |-> r.rc,
                                              stdout |-> r.stdout,
                                              pod |-> ex.controller,
                                              env |-> EnvVars(ex.node)])]
         IN  IF AttemptSucceeded(r.rc, r.stdout)
             THEN /\ ex' = [logged EXCEPT !.returned = TRUE, !.ok = TRUE,
                                          !.out = r.stdout]
                  /\ pc' = ReturnPc
                  /\ stack' = ReturnStack
             ELSE IF ex.attempt < args.MAX_RETRIES
             THEN /\ ex' = [logged EXCEPT
                               !.attempt = @ + 1, !.sleeps = @ + 1,
                               !.slept = @ + RetryWait(ex.attempt)]
                  /\ pc' = "ex_run"
                  /\ stack' = stack
             ELSE /\ ex' = [logged EXCEPT
                               !.returned = TRUE, !.ok = FALSE,
                               !.out = IF r.stdout # <<>> THEN r.stdout
                                       ELSE r.stderr]
                  /\ pc' = ReturnPc
                  /\ stack' = ReturnStack
    /\ UNCHANGED <<entry, args, run, he, dp, cr, pt, collected, sel, helm,
                   clamp, probe, xp, snap, mn, rs>>

(***************************************************************************)
(* run(helmChartPath, nodeCount, skipDeploy, valuesFile)                   *)
(*                                                                         *)
(* run.stages logs the stages: <<stage, "start">> when the stage's method  *)
(* is called, <<stage, "ok">> or <<stage, "failed">> when it has returned. *)
(***************************************************************************)
Stages ==
    <<"Deploy", "ReadyWorkers", "ReadyController", "CollectTests",
      "ExecuteTests">>

\* nodeCount or DEFAULT_NODE_COUNT
EffectiveNodeCount(nodeCount) ==
    IF nodeCount # 0 THEN nodeCount ELSE DEFAULT_NODE_COUNT

Outcome(ok) == IF ok THEN "ok" ELSE "failed"

\* return False
RunFails(stage) ==
    /\ run' = [run EXCEPT !.stages = Append(@, <<stage, "failed">>),
                          !.returned = TRUE, !.ret = FALSE]
    /\ pc' = ReturnPc
    /\ stack' = ReturnStack

\* STEP 1: deploy, wrapped in handleErrors.
RunDeploy ==
    /\ pc = "run"
    /\ ~args.skipDeploy /\ args.helmChartPath # NoPath
    /\ run' = [run EXCEPT
                  !.effectiveNodeCount = EffectiveNodeCount(args.nodeCount),
                  !.stages = Append(@, <<"Deploy", "start">>)]
    /\ IF 1 <= args.MAX_RETRIES
       THEN /\ he' = [EmptyHe EXCEPT !.op = "deploy", !.attempt = 1]
            /\ pc' = "he_try"
       ELSE /\ he' = [EmptyHe EXCEPT !.op = "deploy", !.returned = TRUE]
            /\ pc' = "run_deployed"
    /\ stack' = <<"run_deployed">> \o stack
    /\ UNCHANGED <<entry, args, dp, cr, pt, collected, ex, sel, helm, clamp,
                   probe, xp, snap, mn, rs>>

\* STEP 1 is skipped; STEP 2: wait for the worker pods.
RunSkipDeploy ==
    /\ pc = "run"
    /\ ~(~args.skipDeploy /\ args.helmChartPath # NoPath)
    /\ run' = [run EXCEPT
                  !.effectiveNodeCount = EffectiveNodeCount(args.nodeCount),
                  !.stages = Append(@, <<"ReadyWorkers", "start">>)]
    /\ cr' = CheckReadinessFrame(CHROME_NODE_POD_LABEL,
                                 EffectiveNodeCount(args.nodeCount))
    /\ pc' = "cr_loop"
    /\ stack' = <<"run_workers">> \o stack
    /\ UNCHANGED <<entry, args, he, dp, pt, collected, ex, sel, helm, clamp,
                   probe, xp, snap, mn, rs>>

\* handleErrors has returned.  STEP 2: wait for the worker pods.
RunDeployed ==
    /\ pc = "run_deployed"
    /\ he' = EmptyHe
    /\ dp' = EmptyDp
    /\ IF ~he.ok
       THEN /\ RunFails("Deploy")
            /\ cr' = cr
       ELSE /\ run' = [run EXCEPT
                          !.stages = @ \o <<<<"Deploy", "ok">>,
                                            <<"ReadyWorkers", "start">>>>]
            /\ cr' = CheckReadinessFrame(CHROME_NODE_POD_LABEL,
                                         run.effectiveNodeCount)
            /\ pc' = "cr_loop"
            /\ stack' = <<"run_workers">> \o stack
    /\ UNCHANGED <<entry, args, pt, collected, ex, sel, helm, clamp, probe, xp,
                   snap, mn, rs>>

\* A variant of STEP 3 that goes on to the controller pod although the
\* worker pods did not become ready.
ProceedsUnready ==
    /\ pc = "run_workers"
    /\ run' = [run EXCEPT
                  !.stages = @ \o <<<<"ReadyWorkers", Outcome(cr.ret)>>,
                                    <<"ReadyController", "start">>>>]
    /\ cr' = CheckReadinessFrame(CONTROLLER_POD_LABEL, 1)
    /\ pc' = "cr_loop"
    /\ stack' = <<"run_controller">> \o stack
    /\ UNCHANGED <<entry, args, he, dp, pt, collected, ex, sel, helm, clamp,
                   probe, xp, snap, mn, rs>>

\* STEP 3: wait for the controller pod.
RunWorkersReady ==
    /\ pc = "run_workers"
    /\ IF ~cr.ret
       THEN /\ RunFails("ReadyWorkers")
            /\ cr' = EmptyCr
       ELSE /\ run' = [run EXCEPT
                          !.stages = @ \o <<<<"ReadyWorkers", "ok">>,
                                            <<"ReadyController", "start">>>>]
            /\ cr' = CheckReadinessFrame(CONTROLLER_POD_LABEL, 1)
            /\ pc' = "cr_loop"
            /\ stack' = <<"run_controller">> \o stack
    /\ UNCHANGED <<entry, args, he, dp, pt, collected, ex, sel, helm, clamp,
                   probe, xp, snap, mn, rs>>

RunControllerReady ==
    /\ pc = "run_controller"
    /\ IF ~cr.ret
       THEN RunFails("ReadyController")
       ELSE /\ run' = [run EXCEPT
                          !.stages = Append(@, <<"ReadyController", "ok">>)]
            /\ pc' = "run_status"
            /\ stack' = stack
    /\ cr' = EmptyCr
    /\ UNCHANGED <<entry, args, he, dp, pt, collected, ex, sel, helm, clamp,
                   probe, xp, snap, mn, rs>>

\* status = self.getPodStatus() is logged only.  STEP 4: collect.
RunCollect ==
    /\ pc = "run_status"
    /\ \/ /\ \E fault \in ListFaults : Escapes(fault)
          /\ Raised
          /\ run' = run
          /\ pt' = pt
       \/ /\ \E e1 \in CaughtListFaults,
                controllerPods \in ListedPods(CONTROLLER_POD_LABEL),
                e2 \in CaughtListFaults,
                chromePods \in ListedPods(CHROME_NODE_POD_LABEL) :
               /\ Len(_getPodsByLabel(e1, controllerPods)) >= 0
               /\ Len(_getPodsByLabel(e2, chromePods)) >= 0
          /\ run' = [run EXCEPT
                        !.stages = Append(@, <<"CollectTests", "start">>)]
          /\ pt' = PassTestCasesFrame
          /\ pc' = "ptc_find"
          /\ stack' = <<"run_collected">> \o stack
    /\ UNCHANGED <<entry, args, he, dp, cr, collected, ex, sel, helm, clamp,
                   probe, xp, snap, mn, rs>>

\* A variant of STEP 5 that collects again when the list is empty.
CollectsAgain ==
    /\ pc = "run_collected"
    /\ IF pt.ret = <<>>
       THEN /\ run' = [run EXCEPT
                          !.stages = @ \o <<<<"CollectTests", "failed">>,
                                            <<"CollectTests", "start">>>>]
            /\ pt' = PassTestCasesFrame
            /\ ex' = ex
            /\ pc' = "ptc_find"
            /\ stack' = stack
       ELSE /\ run' = [run EXCEPT
                          !.testCases = pt.ret,
                          !.stages = @ \o <<<<"CollectTests", "ok">>,
                                            <<"ExecuteTests", "start">>>>]
            /\ pt' = EmptyPt
            /\ ex' = EmptyEx
            /\ pc' = "ex_find"
            /\ stack' = <<"run_executed">> \o stack
    /\ UNCHANGED <<entry, args, he, dp, cr, collected, sel, helm, clamp, probe,
                   xp, snap, mn, rs>>

\* A variant of STEP 5 that gives up when the list is empty.
SkipsExecution ==
    /\ pc = "run_collected"
    /\ IF run.testCases = <<>> /\ pt.ret = <<>>
       THEN /\ RunFails("CollectTests")
            /\ ex' = ex
       ELSE /\ run' = [run EXCEPT
                          !.testCases = pt.ret,
                          !.stages = @ \o <<<<"CollectTests", "ok">>,
                                            <<"ExecuteTests", "start">>>>]
            /\ ex' = EmptyEx
            /\ pc' = "ex_find"
            /\ stack' = <<"run_executed">> \o stack
    /\ pt' = EmptyPt
    /\ UNCHANGED <<entry, args, he, dp, cr, collected, sel, helm, clamp, probe,
                   xp, snap, mn, rs>>

\* A variant of STEP 5 that hands the collected list to executeTests.
PassesCollected ==
    /\ pc = "run_collected"
    /\ run' = [run EXCEPT
                  !.testCases = pt.ret,
                  !.stages = @ \o <<<<"CollectTests", Outcome(pt.ret # <<>>)>>,
                                    <<"ExecuteTests", "start">>>>]
    /\ ex' = [EmptyEx EXCEPT !.specificTests = pt.ret]
    /\ pc' = "ex_find"
    /\ stack' = <<"run_executed">> \o stack
    /\ pt' = EmptyPt
    /\ UNCHANGED <<entry, args, he, dp, cr, collected, sel, helm, clamp, probe,
                   xp, snap, mn, rs>>

\* testCases = self.passTestCases() has returned; an empty list is only
\* warned about.  STEP 5: execute, with the default arguments.
RunCollected ==
    /\ pc = "run_collected"
    /\ run' = [run EXCEPT
                  !.testCases = pt.ret,
                  !.stages = @ \o <<<<"CollectTests", Outcome(pt.ret # <<>>)>>,
                                    <<"ExecuteTests", "start">>>>]
    /\ ex' = EmptyEx
    /\ pc' = "ex_find"
    /\ stack' = <<"run_executed">> \o stack
    /\ pt' = EmptyPt
    /\ UNCHANGED <<entry, args, he, dp, cr, collected, sel, helm, clamp, probe,
                   xp, snap, mn, rs>>

\* A variant of the end of run that undoes the deployment when the tests
\* failed: one more run of helm, with no replicas.
RollsBackFailedTests ==
    /\ pc = "run_executed"
    /\ run' = [run EXCEPT
                  !.stages = Append(@, <<"ExecuteTests", Outcome(ex.ok)>>),
                  !.returned = TRUE, !.ret = ex.ok]
    /\ pc' = ReturnPc
    /\ stack' = ReturnStack
    /\ helm' = IF ex.ok THEN helm ELSE helm \cup {HelmCommand(0)}
    /\ UNCHANGED <<entry, args, he, dp, cr, pt, collected, ex, sel, clamp,
                   probe, xp, snap, mn, rs>>

\* success, _ = self.executeTests(); return success
RunExecuted ==
    /\ pc = "run_executed"
    /\ run' = [run EXCEPT
                  !.stages = Append(@, <<"ExecuteTests", Outcome(ex.ok)>>),
                  !.returned = TRUE, !.ret = ex.ok]
    /\ pc' = ReturnPc
    /\ stack' = ReturnStack
    /\ UNCHANGED <<entry, args, he, dp, cr, pt, collected, ex, sel, helm,
                   clamp, probe, xp, snap, mn, rs>>

(***************************************************************************)
(* main()                                                                  *)
(***************************************************************************)
\* sys.exit(code): the process ends.
Exit(code) ==
    /\ pc' = "exited"
    /\ stack' = <<>>
    /\ mn' = [mn EXCEPT !.exited = TRUE, !.code = code]

\* A step is entered: its name is added to the steps this invocation ran.
Enters(step) == mn' = [mn EXCEPT !.steps = Append(@, step)]

\* args = parseArgs(), before the try block: parse_args() prints the usage
\* and exits with status 2 on a command line it cannot parse, prints the
\* help and exits with status 0 on -h/--help, and returns otherwise.
MainParseArgs ==
    /\ pc = "main"
    /\ IF mn.cmdline = "invalid" THEN Exit(2)
       ELSE IF mn.cmdline = "help" THEN Exit(0)
       ELSE pc' = "main_try" /\ stack' = stack /\ mn' = mn
    /\ UNCHANGED <<entry, args, run, he, dp, cr, pt, collected, ex, sel, helm,
                   clamp, probe, xp, snap, rs>>

\* orchestrator = KubernetesOrchestrator(kubeConfig=args.kubeconfig):
\* _loadKubeConfig raises again what loading the configuration raised.
MainConstruct ==
    /\ pc = "main_try"
    /\ IF mn.kubeconfig
       THEN pc' = "main_dispatch" /\ stack' = stack
       ELSE Raised
    /\ collected' = <<>>
    /\ UNCHANGED <<entry, args, run, he, dp, cr, pt, ex, sel, helm, clamp,
                   probe, xp, snap, mn, rs>>

\* if args.status: getPodStatus lists the controller pods and the worker
\* pods (an API error lists nothing, another exception leaves the call);
\* sys.exit(0).
MainStatus ==
    /\ pc = "main_dispatch"
    /\ mn.flags.status
    /\ \/ /\ \E fault \in ListFaults : Escapes(fault)
          /\ Raised
          /\ Enters("status")
       \/ /\ \E e1 \in CaughtListFaults,
                controllerPods \in ListedPods(CONTROLLER_POD_LABEL),
                e2 \in CaughtListFaults,
                chromePods \in ListedPods(CHROME_NODE_POD_LABEL) :
               /\ Len(_getPodsByLabel(e1, controllerPods)) >= 0
               /\ Len(_getPodsByLabel(e2, chromePods)) >= 0
          /\ pc' = "exited"
          /\ stack' = <<>>
          /\ mn' = [mn EXCEPT !.steps = Append(@, "status"),
                              !.listed = TRUE, !.exited = TRUE, !.code = 0]
    /\ UNCHANGED <<entry, args, run, he, dp, cr, pt, collected, ex, sel, helm,
                   clamp, probe, xp, snap, rs>>

\* if args.deploy: orchestrator.deploy(args.helm_chart_path,
\* args.node_count, args.values_file)
MainDeploy ==
    /\ pc = "main_dispatch"
    /\ ~mn.flags.status /\ mn.flags.deploy
    /\ Enters("deploy")
    /\ run' = [run EXCEPT !.effectiveNodeCount = args.nodeCount]
    /\ pc' = "deploy"
    /\ stack' = <<"main_deployed">>
    /\ UNCHANGED <<entry, args, he, dp, cr, pt, collected, ex, sel, helm,
                   clamp, probe, xp, snap, rs>>

\* sys.exit(0 if success else 1)
MainDeployed ==
    /\ pc = "main_deployed"
    /\ Exit(IF dp.ret THEN 0 ELSE 1)
    /\ UNCHANGED <<entry, args, run, he, dp, cr, pt, collected, ex, sel, helm,
                   clamp, probe, xp, snap, rs>>

\* if args.check_readiness:
\* chromeReady = orchestrator.checkReadiness(CHROME_NODE_POD_LABEL)
MainCheckReadiness ==
    /\ pc = "main_dispatch"
    /\ ~mn.flags.status /\ ~mn.flags.deploy /\ mn.flags.checkReadiness
    /\ Enters("checkReadiness")
    /\ cr' = CheckReadinessFrame(CHROME_NODE_POD_LABEL, 1)
    /\ pc' = "cr_loop"
    /\ stack' = <<"main_chrome_ready">>
    /\ UNCHANGED <<entry, args, run, he, dp, pt, collected, ex, sel, helm,
                   clamp, probe, xp, snap, rs>>

\* controllerReady = orchestrator.checkReadiness(CONTROLLER_POD_LABEL),
\* called whatever the first call returned.
MainChromeReady ==
    /\ pc = "main_chrome_ready"
    /\ mn' = [mn EXCEPT !.chromeReady = cr.ret]
    /\ cr' = CheckReadinessFrame(CONTROLLER_POD_LABEL, 1)
    /\ pc' = "cr_loop"
    /\ stack' = <<"main_controller_ready">>
    /\ UNCHANGED <<entry, args, run, he, dp, pt, collected, ex, sel, helm,
                   clamp, probe, xp, snap, rs>>

\* success = chromeReady and controllerReady; sys.exit(0 if success else 1)
MainControllerReady ==
    /\ pc = "main_controller_ready"
    /\ Exit(IF mn.chromeReady /\ cr.ret THEN 0 ELSE 1)
    /\ UNCHANGED <<entry, args, run, he, dp, cr, pt, collected, ex, sel, helm,
                   clamp, probe, xp, snap, rs>>

\* if args.pass_test_cases: testCases = orchestrator.passTestCases()
MainPassTestCases ==
    /\ pc = "main_dispatch"
    /\ ~mn.flags.status /\ ~mn.flags.deploy /\ ~mn.flags.checkReadiness
    /\ mn.flags.passTestCases
    /\ Enters("passTestCases")
    /\ pt' = PassTestCasesFrame
    /\ pc' = "ptc_find"
    /\ stack' = <<"main_collected">>
    /\ UNCHANGED <<entry, args, run, he, dp, cr, collected, ex, sel, helm,
                   clamp, probe, xp, snap, rs>>

\* A variant without the exit after the collection: with --execute-tests
\* given as well, control falls through to the next `if`.
FallsThroughCollected ==
    /\ pc = "main_collected"
    /\ IF mn.flags.executeTests
       THEN /\ Enters("executeTests")
            /\ ex' = EmptyEx
            /\ pc' = "ex_find"
            /\ stack' = <<"main_executed">>
       ELSE /\ Exit(IF pt.ret # <<>> THEN 0 ELSE 1)
            /\ ex' = ex
    /\ UNCHANGED <<entry, args, run, he, dp, cr, pt, collected, sel, helm,
                   clamp, probe, xp, snap, rs>>

\* sys.exit(0 if testCases else 1)
MainCollected ==
    /\ pc = "main_collected"
    /\ Exit(IF pt.ret # <<>> THEN 0 ELSE 1)
    /\ UNCHANGED <<entry, args, run, he, dp, cr, pt, collected, ex, sel, helm,
                   clamp, probe, xp, snap, rs>>

\* if args.execute_tests: success, _ = orchestrator.executeTests()
MainExecuteTests ==
    /\ pc = "main_dispatch"
    /\ ~mn.flags.status /\ ~mn.flags.deploy /\ ~mn.flags.checkReadiness
    /\ ~mn.flags.passTestCases /\ mn.flags.executeTests
    /\ Enters("executeTests")
    /\ ex' = EmptyEx
    /\ pc' = "ex_find"
    /\ stack' = <<"main_executed">>
    /\ UNCHANGED <<entry, args, run, he, dp, cr, pt, collected, sel, helm,
                   clamp, probe, xp, snap, rs>>

\* A variant that exits with status 0 whatever executeTests returned.
ExitsZeroExecuted ==
    /\ pc = "main_executed"
    /\ Exit(0)
    /\ UNCHANGED <<entry, args, run, he, dp, cr, pt, collected, ex, sel, helm,
                   clamp, probe, xp, snap, rs>>

\* sys.exit(0 if success else 1)
MainExecuted ==
    /\ pc = "main_executed"
    /\ Exit(IF ex.ok THEN 0 ELSE 1)
    /\ UNCHANGED <<entry, args, run, he, dp, cr, pt, collected, ex, sel, helm,
                   clamp, probe, xp, snap, rs>>

\* No step flag: success = orchestrator.run(helmChartPath, nodeCount,
\* skipDeploy, valuesFile)
MainRun ==
    /\ pc = "main_dispatch"
    /\ ~mn.flags.status /\ ~mn.flags.deploy /\ ~mn.flags.checkReadiness
    /\ ~mn.flags.passTestCases /\ ~mn.flags.executeTests
    /\ Enters("run")
    /\ pc' = "run"
    /\ stack' = <<"main_ran">>
    /\ UNCHANGED <<entry, args, run, he, dp, cr, pt, collected, ex, sel, helm,
                   clamp, probe, xp, snap, rs>>

\* sys.exit(0 if success else 1)
MainRan ==
    /\ pc = "main_ran"
    /\ Exit(IF run.ret THEN 0 ELSE 1)
    /\ UNCHANGED <<entry, args, run, he, dp, cr, pt, collected, ex, sel, helm,
                   clamp, probe, xp, snap, rs>>

\* except Exception: sys.exit(1)
MainExcept ==
    /\ entry = "main"
    /\ pc = "raised"
    /\ pc' = "exited"
    /\ stack' = <<>>
    /\ mn' = [mn EXCEPT !.caught = TRUE, !.exited = TRUE, !.code = 1]
    /\ UNCHANGED <<entry, args, run, he, dp, cr, pt, collected, ex, sel, helm,
                   clamp, probe, xp, snap, rs>>

\* except KeyboardInterrupt: sys.exit(130).  The user interrupts the
\* process anywhere inside the try block; no handler below main catches a
\* KeyboardInterrupt, so the frames of the calls in progress unwind.
MainInterrupt ==
    /\ entry = "main"
    /\ pc \notin {"main", "raised", "exited"}
    /\ pc' = "exited"
    /\ stack' = <<>>
    /\ mn' = [mn EXCEPT !.interrupted = TRUE, !.exited = TRUE, !.code = 130]
    /\ run' = EmptyRun /\ he' = EmptyHe /\ dp' = EmptyDp /\ cr' = EmptyCr
    /\ pt' = EmptyPt /\ ex' = EmptyEx /\ sel' = EmptySel
    /\ collected' = <<>>
    /\ UNCHANGED <<entry, args, helm, clamp, probe, xp, snap, rs>>

(***************************************************************************)
(* retryOnStaleElement(maxAttempts, delay), tests/pages/base_page.py       *)
(***************************************************************************)
STALE == "StaleElementReferenceException"

\* What one call of the wrapped function comes to: it returns a value (the
\* page object, or None) or raises: the stale-element exception, or one of
\* another class.
FuncOutcomes ==
    {[kind |-> "return", v |-> x] : x \in {"self", "None"}}
        \cup {[kind |-> "raise", v |-> x] :
                  x \in {STALE, "NoSuchElementException", "Exception"}}

\* A variant whose handler catches every exception, not the stale one alone.
RetriesAnyException ==
    /\ pc = "rs_loop"
    /\ rs.attempt < rs.maxAttempts
    /\ \E o \in FuncOutcomes :
         LET called == [rs EXCEPT !.calls = Append(@, o)]
         IN  IF o.kind = "return"
             THEN /\ rs' = [called EXCEPT !.returned = TRUE, !.ret = o.v]
                  /\ pc' = ReturnPc
                  /\ stack' = ReturnStack
             ELSE IF rs.attempt = rs.maxAttempts - 1
             THEN /\ rs' = [called EXCEPT !.raised = o.v]
                  /\ Raised
             ELSE /\ rs' = [called EXCEPT !.attempt = @ + 1,
                                          !.sleeps = @ + 1,
                                          !.slept = @ + rs.delay]
                  /\ pc' = "rs_loop"
                  /\ stack' = stack
    /\ UNCHANGED <<entry, args, run, he, dp, cr, pt, collected, ex, sel, helm,
                   clamp, probe, xp, snap, mn>>

\* One turn of `for attempt in range(maxAttempts)`: the function is called;
\* its value is returned; a stale-element exception is raised again on the
\* last turn and slept on before the next turn otherwise; any other
\* exception leaves the wrapper.
WrapperCall ==
    /\ pc = "rs_loop"
    /\ rs.attempt < rs.maxAttempts
    /\ \E o \in FuncOutcomes :
         LET called == [rs EXCEPT !.calls = Append(@, o)]
         IN  IF o.kind = "return"
             THEN /\ rs' = [called EXCEPT !.returned = TRUE, !.ret = o.v]
                  /\ pc' = ReturnPc
                  /\ stack' = ReturnStack
             ELSE IF o.v # STALE
             THEN /\ rs' = [called EXCEPT !.raised = o.v]
                  /\ Raised
             ELSE IF rs.attempt = rs.maxAttempts - 1
             THEN /\ rs' = [called EXCEPT !.raised = o.v]
                  /\ Raised
             ELSE /\ rs' = [called EXCEPT !.attempt = @ + 1,
                                          !.sleeps = @ + 1,
                                          !.slept = @ + rs.delay]
                  /\ pc' = "rs_loop"
                  /\ stack' = stack
    /\ UNCHANGED <<entry, args, run, he, dp, cr, pt, collected, ex, sel, helm,
                   clamp, probe, xp, snap, mn>>

\* range(maxAttempts) is empty or used up: the wrapper ends without a
\* return statement, returning None.
WrapperFallsOff ==
    /\ pc = "rs_loop"
    /\ rs.attempt >= rs.maxAttempts
    /\ rs' = [rs EXCEPT !.returned = TRUE, !.ret = "None"]
    /\ pc' = ReturnPc
    /\ stack' = ReturnStack
    /\ UNCHANGED <<entry, args, run, he, dp, cr, pt, collected, ex, sel, helm,
                   clamp, probe, xp, snap, mn>>

(***************************************************************************)
(* The specifications.                                                     *)
(***************************************************************************)
Next ==
    \/ RunDeploy
    \/ RunSkipDeploy
    \/ RunDeployed
    \/ RunWorkersReady
    \/ RunControllerReady
    \/ RunCollect
    \/ RunCollected
    \/ RunExecuted
    \/ HandleErrorsCallDeploy
    \/ HandleErrorsDeployed
    \/ HandleErrorsResult
    \/ DeployEnter
    \/ DeployRun
    \/ CheckReadinessPoll
    \/ CheckReadinessTimeout
    \/ PassTestCasesFind
    \/ PassTestCasesExec
    \/ ExecuteTestsFind
    \/ ExecuteTestsSelected
    \/ ExecuteTestsRun
    \/ SelectFindController
    \/ SelectListWorkers
    \/ SelectSkip
    \/ SelectProbe
    \/ SelectNone

\* A full run.
Spec == Init /\ [][Next]_vars

NextRetry ==
    \/ HandleErrorsEnter
    \/ HandleErrorsCallAny
    \/ HandleErrorsResult

NextExecute ==
    \/ ExecuteTestsFind
    \/ ExecuteTestsSelected
    \/ ExecuteTestsRun
    \/ SelectFindController
    \/ SelectListWorkers
    \/ SelectSkip
    \/ SelectProbe
    \/ SelectNone

\* executeTests on its own.
SpecExecute == InitExecute /\ [][NextExecute]_vars

NextReadiness ==
    \/ CheckReadinessPoll
    \/ CheckReadinessTimeout

\* checkReadiness on its own.
SpecReadiness == InitReadiness /\ [][NextReadiness]_vars

\* checkReadiness on its own; the interpreter keeps running the loop.
SpecReadinessFair ==
    InitReadiness /\ [][NextReadiness]_vars /\ WF_vars(NextReadiness)

NextDeploy ==
    \/ DeployEnter
    \/ DeployRun

\* deploy on its own.
SpecDeploy == InitDeploy /\ [][NextDeploy]_vars

\* handleErrors on any operation.
SpecRetry == InitRetry /\ [][NextRetry]_vars

\* _checkChromeNodeStatus on any reply of the probe command.
SpecProbe == InitProbe /\ [][CheckChromeNodeStatus]_vars

NextExec ==
    \/ ExecInPodOpen
    \/ ExecInPodCheck
    \/ ExecInPodUpdate

\* _execInPod on its own; the interpreter keeps running the loop.
SpecExec == InitExec /\ [][NextExec]_vars /\ WF_vars(NextExec)

NextCollect ==
    \/ PassTestCasesFind
    \/ PassTestCasesExec
    \/ PassTestCasesAgain

\* passTestCases called up to MaxCalls times on one object.
SpecCollect == InitCollect /\ [][NextCollect]_vars

\* _isPodReady on any pod snapshot.
SpecSnapshot == InitSnapshot /\ [][IsPodReady]_vars

\* _validateNodeCount on any integer of the range.
SpecClamp == InitClamp /\ [][ValidateNodeCount]_vars

NextMain ==
    \/ MainParseArgs
    \/ MainConstruct
    \/ MainStatus
    \/ MainDeploy
    \/ MainDeployed
    \/ MainCheckReadiness
    \/ MainChromeReady
    \/ MainControllerReady
    \/ MainPassTestCases
    \/ MainCollected
    \/ MainExecuteTests
    \/ MainExecuted
    \/ MainRun
    \/ MainRan
    \/ MainExcept
    \/ MainInterrupt
    \/ Next

\* main on any command line.
SpecMain == InitMain /\ [][NextMain]_vars

NextConfigured ==
    \/ NextDeploy
    \/ NextCollect
    \/ NextExecute
    \/ NextRetry

\* The retried operations, each on its own, under any configured
\* MAX_RETRIES.
SpecConfigured == InitConfigured /\ [][NextConfigured]_vars

NextStale ==
    \/ WrapperCall
    \/ WrapperFallsOff

\* A function wrapped by retryOnStaleElement, called once.
SpecStale == InitStale /\ [][NextStale]_vars

(***************************************************************************)
(* Properties of handleErrors (SpecRetry).                                 *)
(***************************************************************************)
\* The operations of the contract: a bool, a tuple led by a bool, a raise.
InContract(result) == result.t \in {"bool", "tuple", "raise"}

\* An outcome that is a success of the operation: a true bool or a tuple
\* led by one.
Succeeds(result) == result.t \in {"bool", "tuple"} /\ result.v

\* C3: when every call handleErrors made produced a bool, a tuple led by a
\* bool, or an exception, then no call follows a successful one; once it
\* has returned, either the last call (call K <= MAX_RETRIES) is the first
\* successful one and the result is (True, that call's result) after exactly
\* K calls, or no call succeeded and the result is (False, None) after
\* exactly MAX_RETRIES calls.
C3_RetryUntilSuccess ==
    LET n == Len(he.results)
    IN  (\A i \in 1..n : InContract(he.results[i])) =>
            /\ n <= MAX_RETRIES
            /\ \A i \in 1..(n - 1) : ~Succeeds(he.results[i])
            /\ he.returned =>
                 IF n >= 1 /\ Succeeds(he.results[n])
                 THEN he.ok /\ he.result = he.results[n]
                 ELSE ~he.ok /\ he.result = PyNone /\ n = MAX_RETRIES

\* C3 witness: an exception, then False, then a successful tuple on the
\* third call, which handleErrors returns.
C3_Witness ==
    /\ entry = "handleErrors"
    /\ he.returned /\ he.ok
    /\ Len(he.results) = 3
    /\ he.results[1].t = "raise"
    /\ he.results[2] = PyBool(FALSE)
    /\ he.results[3].t = "tuple"
    /\ he.result = he.results[3]

(***************************************************************************)
(* Properties of checkReadiness (SpecReadiness).                           *)
(***************************************************************************)
\* C4: checkReadiness returns True exactly when a poll counted at least
\* minReady ready pods; that poll was entered with less than
\* READINESS_TIMEOUT elapsed and the call returned at it, with no poll
\* after; it returns False only once READINESS_TIMEOUT has elapsed.
C4_ReadyIffPolledReady ==
    /\ cr.returned => (cr.ret <=> cr.hit)
    /\ cr.hit => cr.returned /\ cr.ret /\ cr.at < READINESS_TIMEOUT
    /\ cr.returned /\ ~cr.ret => cr.elapsed >= READINESS_TIMEOUT

\* C4 witness: a call that returned True at a poll later than the first.
C4_Witness ==
    /\ entry = "checkReadiness"
    /\ cr.returned /\ cr.ret /\ cr.hit
    /\ cr.minReady >= 1
    /\ cr.at > READINESS_CHECK_INTERVAL

(***************************************************************************)
(* Properties of _validateNodeCount (SpecClamp).                           *)
(***************************************************************************)
\* C10: _validateNodeCount(n) is in 1..5: 1 for n < 1, 5 for n > 5, n itself
\* for n in 1..5; applied to its own result it returns it unchanged.
C10_ClampedToRange ==
    clamp.done =>
        /\ clamp.out \in 1..5
        /\ clamp.n < 1 => clamp.out = 1
        /\ clamp.n > 5 => clamp.out = 5
        /\ clamp.n \in 1..5 => clamp.out = clamp.n
        /\ _validateNodeCount(clamp.out) = clamp.out

\* C10 witness: a count above the range came back as 5.
C10_Witness == clamp.done /\ clamp.n > 5 /\ clamp.out = 5

(***************************************************************************)
(* Properties of _getAvailableChromeNode, read where executeTests gets its *)
(* result (SpecExecute).                                                   *)
(***************************************************************************)
\* The selection has returned to executeTests.
Selected == pc = "ex_selected" /\ sel.returned

\* The pod a returned host name belongs to: the last one probed.
SelectedPod == sel.pods[sel.probes[Len(sel.probes)].idx]

\* C5: a pod returned by _getAvailableChromeNode is Running with all its
\* containers ready, and the occupied slots of its status body, over all
\* sub-units, are fewer than the body's slots over all sub-units.
C5_NeverUnreadyNorFull ==
    Selected /\ sel.ret # None =>
        /\ SelectedPod.phase = "Running"
        /\ \A i \in 1..Len(SelectedPod.cs) : SelectedPod.cs[i]
        /\ sel.last.active < sel.last.capacity

\* A probe that reports ready with fewer active sessions than capacity.
Fit(made) == made.answered /\ made.ready /\ made.fits

\* C6: the probes are made in listing order on cluster-ready pods only;
\* every probe but the last reported the pod not ready or full; a returned
\* host name is that of the last pod probed, which reported ready with
\* active sessions < capacity, and every ready pod before it was probed;
\* when nothing is returned every ready pod was probed and none was fit.
C6_FirstFit ==
    Selected /\ sel.pods # <<>> =>
        LET n == Len(sel.probes)
            probed == {sel.probes[k].idx : k \in 1..n}
            ready == {i \in 1..Len(sel.pods) : _isPodReady(sel.pods[i])}
        IN  /\ probed \subseteq ready
            /\ \A k \in 1..(n - 1) :
                 /\ sel.probes[k].idx < sel.probes[k + 1].idx
                 /\ ~Fit(sel.probes[k])
            /\ IF sel.ret # None
               THEN /\ n >= 1
                    /\ Fit(sel.probes[n])
                    /\ sel.ret = _getChromeNodeDns(SelectedPod.name)
                    /\ probed = {i \in ready : i <= sel.probes[n].idx}
               ELSE /\ n >= 1 => ~Fit(sel.probes[n])
                    /\ probed = ready

(***************************************************************************)
(* Properties of executeTests (SpecExecute).                               *)
(***************************************************************************)
\* The textual heuristic: the lowercased output has "passed" and has no
\* "failed".
LooksPassed(stdout) ==
    /\ Contains(Lower(stdout), <<"p","a","s","s","e","d">>)
    /\ ~Contains(Lower(stdout), <<"f","a","i","l","e","d">>)

\* C7: an attempt of executeTests ends the call with success exactly when
\* its exit code is 0 or its output looks passed; every attempt before the
\* last one made was no success.
C7_AttemptSuccess ==
    \A i \in 1..Len(ex.log) :
        (i = Len(ex.log) /\ ex.returned /\ ex.ok)
            <=> (ex.log[i].rc = 0 \/ LooksPassed(ex.log[i].stdout))

\* C7 witness: exit code 0 is a success although the output has "failed".
C7_Witness ==
    /\ ex.returned /\ ex.ok
    /\ Len(ex.log) = 2
    /\ ex.log[2].rc = 0
    /\ Contains(Lower(ex.log[2].stdout), <<"f","a","i","l","e","d">>)

\* 'Tests passed, 0 failed'
ScenarioOutput ==
    <<"T","e","s","t","s"," ","p","a","s","s","e","d",","," ",
      "0"," ","f","a","i","l","e","d">>

\* Every attempt made exited non-zero and printed the scenario's text.
ScenarioAttempts ==
    /\ ex.log # <<>>
    /\ \A i \in 1..Len(ex.log) :
         ex.log[i].rc # 0 /\ Contains(ex.log[i].stdout, ScenarioOutput)

\* C8 as stated: when every attempt exits non-zero and prints
\* 'Tests passed, 0 failed', executeTests reports success.
C8_AsStated == ex.returned /\ ScenarioAttempts => ex.ok

\* C8 amended: when every attempt exits non-zero and prints
\* 'Tests passed, 0 failed', executeTests reports failure after exactly
\* MAX_RETRIES attempts, the text holding "failed"; a success on a non-zero
\* exit code is reported only for an output that, lowercased, has "passed"
\* and no "failed".
C8_ScenarioFails ==
    /\ ex.returned /\ ScenarioAttempts =>
         ~ex.ok /\ Len(ex.log) = MAX_RETRIES /\ ex.out = ScenarioOutput
    /\ ex.returned /\ ex.ok /\ ex.log[Len(ex.log)].rc # 0 =>
         LooksPassed(ex.log[Len(ex.log)].stdout)

\* C8 witness: three attempts that exited non-zero printing the scenario's
\* text, and the call has reported failure.
C8_Witness ==
    /\ ex.returned /\ ~ex.ok
    /\ Len(ex.log) = MAX_RETRIES
    /\ ScenarioAttempts

(***************************************************************************)
(* Properties of a full run (Spec), stated on the log of stage events.     *)
(***************************************************************************)
LastEvent == run.stages[Len(run.stages)]

\* C1 as stated: a "failed" event of any of the five stages is the last
\* event of the run, and the run has returned False.
C1_AsStated ==
    \A i \in 1..Len(run.stages) :
        run.stages[i][2] = "failed" =>
            i = Len(run.stages) /\ run.returned /\ ~run.ret

\* C1 amended: a failure of Deploy, ReadyWorkers, ReadyController or
\* ExecuteTests is the last event of the run, which has returned False and
\* executes nothing more; a failure of CollectTests (an empty list) does
\* not halt the run: it is followed by the start of ExecuteTests.  A run
\* returns False only with a failed stage as its last event.
C1_FailureHalts ==
    /\ \A i \in 1..Len(run.stages) :
         run.stages[i][2] = "failed" =>
             IF run.stages[i][1] = "CollectTests"
             THEN /\ i < Len(run.stages)
                  /\ run.stages[i + 1] = <<"ExecuteTests", "start">>
             ELSE /\ i = Len(run.stages)
                  /\ run.returned /\ ~run.ret
                  /\ pc = "done"
    /\ run.returned /\ ~run.ret =>
         LastEvent[2] = "failed" /\ LastEvent[1] # "CollectTests"

\* C1 witness: a run in which the collection failed, the execution was
\* started all the same and failed, and the run returned False.
C1_Witness ==
    /\ run.returned /\ ~run.ret
    /\ Len(run.stages) >= 4
    /\ run.stages[Len(run.stages) - 2] = <<"CollectTests", "failed">>
    /\ LastEvent = <<"ExecuteTests", "failed">>

\* The place of a stage in the sequence.
StageIndex(stage) == CHOOSE i \in 1..Len(Stages) : Stages[i] = stage

\* The stage whose code the program is in, "none" between stages.
StageAt ==
    IF pc \in {"he_try", "he_result", "he_deployed", "deploy", "deploy_run",
               "run_deployed"}
    THEN "Deploy"
    ELSE IF pc = "cr_loop"
    THEN IF Head(stack) = "run_workers" THEN "ReadyWorkers"
         ELSE "ReadyController"
    ELSE IF pc = "run_workers" THEN "ReadyWorkers"
    ELSE IF pc = "run_controller" THEN "ReadyController"
    ELSE IF pc \in {"ptc_find", "ptc_exec", "run_collected"}
    THEN "CollectTests"
    ELSE IF pc \in {"ex_find", "sel_find", "sel_list", "sel_loop",
                    "ex_selected", "ex_run", "run_executed"}
    THEN "ExecuteTests"
    ELSE "none"

\* C2: the first stage started is Deploy, or ReadyWorkers when the
\* deployment is skipped; every later start follows the end of the stage
\* just before it in the sequence, so the starts are in order, each stage
\* at most once, none again after a later one; a stage ends only right
\* after its own start; the program is inside a stage's code exactly while
\* that stage's start is the last event (a run an exception has ended is in
\* no stage's code any more).
C2_StagesInOrder ==
    LET n == Len(run.stages)
    IN  /\ n >= 1 =>
             run.stages[1] =
                 <<IF ~args.skipDeploy /\ args.helmChartPath # NoPath
                   THEN "Deploy" ELSE "ReadyWorkers", "start">>
        /\ \A j \in 2..n :
             IF run.stages[j][2] = "start"
             THEN /\ run.stages[j - 1][2] # "start"
                  /\ StageIndex(run.stages[j][1])
                         = StageIndex(run.stages[j - 1][1]) + 1
             ELSE run.stages[j - 1] = <<run.stages[j][1], "start">>
        /\ \A i, j \in 1..n :
             i < j /\ run.stages[i][2] = "start" /\ run.stages[j][2] = "start"
                 => StageIndex(run.stages[i][1]) < StageIndex(run.stages[j][1])
        /\ pc # "raised" =>
             IF StageAt = "none"
             THEN n >= 1 => LastEvent[2] # "start"
             ELSE n >= 1 /\ LastEvent = <<StageAt, "start">>

\* C2 witness: a run that went through all five stages and returned True.
C2_Witness ==
    /\ run.returned /\ run.ret
    /\ Len(run.stages) = 10
    /\ run.stages[1] = <<"Deploy", "start">>
    /\ LastEvent = <<"ExecuteTests", "ok">>

\* ["python", "-m", "pytest", "tests/", "-v", "--tb=short", "-p",
\*  "no:cacheprovider"]
AllTestsCommand ==
    <<"python", "-m", "pytest", "tests/", "-v", "--tb=short", "-p",
      "no:cacheprovider">>

\* C9: when passTestCases has returned and no attempt's output had a line
\* with "::", it made exactly MAX_RETRIES attempts and returned the empty
\* list; after a failed collection the run starts ExecuteTests, with no
\* specific tests and the command that runs everything under tests/, and
\* the run's result is that of ExecuteTests.
C9_EmptyCollectionProceeds ==
    /\ pc = "run_collected" /\ (\A i \in 1..Len(pt.log) : ~pt.log[i].sep) =>
         pt.returned /\ pt.ret = <<>> /\ Len(pt.log) = MAX_RETRIES
    /\ \A i \in 1..Len(run.stages) :
         run.stages[i] = <<"CollectTests", "failed">> =>
             /\ i < Len(run.stages)
             /\ run.stages[i + 1] = <<"ExecuteTests", "start">>
             /\ run.testCases = <<>>
             /\ ex.specificTests = <<>>
             /\ ex.command \in {<<>>, AllTestsCommand}
             /\ run.returned =>
                  /\ run.ret = ex.ok
                  /\ LastEvent = <<"ExecuteTests", Outcome(run.ret)>>

\* C9 witness: the collection failed, the tests were run all the same and
\* passed, and the run returned True.
C9_Witness ==
    /\ run.returned /\ run.ret
    /\ \E i \in 1..Len(run.stages) :
         run.stages[i] = <<"CollectTests", "failed">>
    /\ ex.ok /\ ex.command = AllTestsCommand
    /\ collected = <<>>

(***************************************************************************)
(* Properties of the node count in a full run (Spec).                      *)
(***************************************************************************)
\* C11: every replicaCount and minReplicas handed to helm is in 1..5, and
\* so is the minimum-ready threshold checkReadiness is called with for the
\* worker pods.
C11_ClampedBeforeUse ==
    /\ \A h \in helm : h.replicaCount \in 1..5 /\ h.minReplicas \in 1..5
    /\ cr.label = CHROME_NODE_POD_LABEL => cr.minReady \in 1..5

(***************************************************************************)
(* Properties of deploy (SpecDeploy).                                      *)
(***************************************************************************)
\* The exit status of a run of helm, a run that timed out or could not be
\* started counting as non-zero.
ExitedZero(outcome) == outcome.kind = "exit" /\ outcome.rc = 0

\* C12: with the chart present, deploy runs helm at most MAX_RETRIES times,
\* no run follows one that exited with status zero, deploy returns True
\* exactly when its last run exited with status zero, and False only after
\* MAX_RETRIES runs; what helm wrote plays no part.
C12_DeployByExitStatus ==
    args.chartExists =>
        LET n == Len(dp.log)
        IN  /\ n <= MAX_RETRIES
            /\ \A i \in 1..(n - 1) : ~ExitedZero(dp.log[i])
            /\ dp.returned =>
                 /\ n >= 1
                 /\ dp.ret <=> ExitedZero(dp.log[n])
                 /\ ~dp.ret => n = MAX_RETRIES

\* C12 witness: helm timed out, then exited 1, then exited 0 with output on
\* stderr, and deploy returned True after the third run.
C12_Witness ==
    /\ entry = "deploy"
    /\ dp.returned /\ dp.ret
    /\ Len(dp.log) = 3
    /\ dp.log[1].kind = "timeout"
    /\ dp.log[2] = [kind |-> "exit", rc |-> 1, stderr |-> FALSE]
    /\ dp.log[3] = [kind |-> "exit", rc |-> 0, stderr |-> TRUE]

(***************************************************************************)
(* Failed probes in _getAvailableChromeNode (SpecExecute).                 *)
(***************************************************************************)
\* C13: a probe that brought no status body (exec fault, non-zero exit,
\* empty output, output that is no JSON object) leaves its pod unavailable;
\* the search goes on after it: when the selection has returned, every ready
\* pod up to the one returned, or every ready pod when none is returned,
\* was probed, and a pod is returned exactly when a probe found one
\* available, the pod of that probe.
C13_FailedProbeSkipped ==
    Selected /\ sel.pods # <<>> =>
        LET n == Len(sel.probes)
            probed == {sel.probes[k].idx : k \in 1..n}
            ready == {i \in 1..Len(sel.pods) : _isPodReady(sel.pods[i])}
        IN  /\ \A k \in 1..n : ~sel.probes[k].answered
                                  => ~sel.probes[k].available
            /\ \A k \in 1..(n - 1) : ~sel.probes[k].available
            /\ IF n >= 1 /\ sel.probes[n].available
               THEN /\ sel.ret = _getChromeNodeDns(SelectedPod.name)
                    /\ probed = {i \in ready : i <= sel.probes[n].idx}
               ELSE /\ sel.ret = None
                    /\ probed = ready

\* C13 witness: the probe of the first pod brought no status, the second
\* pod was probed all the same, found available and returned.
C13_Witness ==
    /\ Selected
    /\ Len(sel.probes) = 2
    /\ ~sel.probes[1].answered
    /\ sel.probes[2].available
    /\ sel.ret = _getChromeNodeDns(sel.pods[sel.probes[2].idx].name)

(***************************************************************************)
(* Properties of _checkChromeNodeStatus (SpecProbe).                       *)
(***************************************************************************)
\* A body of the expected shape
\* {value: {ready: bool, nodes: [{slots: [{session: object|null}, ...]}, ...]}}
WellFormed(body) ==
    /\ body.text = "json"
    /\ body.hasValue /\ body.ready \in {"true", "false"} /\ body.hasNodes
    /\ \A i \in 1..Len(body.nodes) :
         /\ body.nodes[i].hasSlots
         /\ \A j \in 1..Len(body.nodes[i].slots) :
              body.nodes[i].slots[j] \in {"session", "null"}

\* C14: for a probe that exited 0 with a well-formed body, the status has
\* sessions = the slots with a session over all sub-units, maxSessions =
\* the slots over all sub-units, and available = ready and
\* sessions < maxSessions.
C14_SumsOverSubUnits ==
    probe.done /\ Answered(probe.reply) /\ WellFormed(probe.reply.body) =>
        LET nodes == probe.reply.body.nodes
        IN  /\ probe.status.sessions = ActiveSessions(nodes)
            /\ probe.status.maxSessions = Capacity(nodes)
            /\ probe.status.ready = (probe.reply.body.ready = "true")
            /\ probe.status.available
                   = (probe.status.ready
                        /\ probe.status.sessions < probe.status.maxSessions)

(***************************************************************************)
(* executeTests without a node (SpecExecute).                              *)
(***************************************************************************)
\* C15: when _getAvailableChromeNode has returned None, the next step of
\* executeTests is its return of (False, "No available Chrome Node") with
\* no run of the test command; the command is only ever run with a node
\* selected, and a call that returned without running it returned False
\* with a message.
C15_NoNodeNoRun ==
    /\ [](ex.log # <<>> => ex.node # None /\ ex.controller # None)
    /\ [](ex.returned /\ ex.log = <<>> =>
              ~ex.ok /\ ex.out \in {MsgNoController, MsgNoNode})
    /\ [][pc = "ex_selected" /\ sel.ret = None =>
              /\ ex'.returned /\ ~ex'.ok
              /\ ex'.out = MsgNoNode
              /\ ex'.log = <<>>
              /\ pc' # "ex_run"]_vars

\* C15 witness: the controller pod was found, the selection returned None,
\* and executeTests returned (False, "No available Chrome Node") without a
\* run of the command.
C15_Witness ==
    /\ ex.returned /\ ~ex.ok
    /\ ex.controller # None
    /\ ex.node = None
    /\ ex.out = MsgNoNode
    /\ ex.log = <<>>

(***************************************************************************)
(* Selection misses and the retries of executeTests (SpecExecute).         *)
(***************************************************************************)
\* C16: executeTests fails only after its retries are exhausted: when it has
\* returned a failure it has made MAX_RETRIES attempts with a retry delay
\* after each attempt but the last, a selection miss included.
C16_MissAfterRetries ==
    (ex.returned /\ ~ex.ok) =>
        /\ ex.attempt = MAX_RETRIES
        /\ ex.sleeps = MAX_RETRIES - 1

(***************************************************************************)
(* Failures of external calls (Spec).                                      *)
(***************************************************************************)
\* C17: no failure of an external call leaves a stage as an exception: the
\* run is never ended by an exception raised inside deploy, checkReadiness,
\* passTestCases, executeTests or _getAvailableChromeNode.
C17_NoEscape == pc # "raised"

(***************************************************************************)
(* The retry loops of deploy, passTestCases, executeTests and              *)
(* handleErrors (Spec).                                                    *)
(***************************************************************************)
\* The waits that go with a number of attempts: one between two attempts.
Waits(attempt) == IF attempt >= 1 THEN attempt - 1 ELSE 0

\* C20: deploy, passTestCases, executeTests and handleErrors each make at
\* most MAX_RETRIES attempts; the waits made are one fewer than the attempts
\* begun, so there is one wait between two consecutive attempts and none
\* after the last attempt or after a successful one; each wait is
\* RETRY_DELAY seconds whatever the attempt number; a call that has returned
\* has made as many attempts as it began.
C20_FixedRetryDelay ==
    /\ dp.attempt <= MAX_RETRIES /\ dp.sleeps = Waits(dp.attempt)
    /\ dp.slept = RETRY_DELAY * dp.sleeps
    /\ dp.returned => Len(dp.log) = dp.attempt
    /\ pt.attempt <= MAX_RETRIES /\ pt.sleeps = Waits(pt.attempt)
    /\ pt.slept = RETRY_DELAY * pt.sleeps
    /\ pt.returned => Len(pt.log) = pt.attempt
    /\ ex.attempt <= MAX_RETRIES /\ ex.sleeps = Waits(ex.attempt)
    /\ ex.slept = RETRY_DELAY * ex.sleeps
    /\ ex.returned => Len(ex.log) = ex.attempt
    /\ he.attempt <= MAX_RETRIES /\ he.sleeps = Waits(he.attempt)
    /\ he.slept = RETRY_DELAY * he.sleeps
    /\ he.returned => Len(he.results) = he.attempt

\* C20 witness: handleErrors returns deploy's success at its second attempt,
\* after one wait of RETRY_DELAY; that call of deploy succeeded at its last
\* attempt, after MAX_RETRIES - 1 waits.
C20_Witness ==
    /\ entry = "run"
    /\ he.returned /\ he.ok /\ he.attempt = 2 /\ he.slept = RETRY_DELAY
    /\ dp.returned /\ dp.ret /\ Len(dp.log) = MAX_RETRIES
    /\ dp.slept = RETRY_DELAY * (MAX_RETRIES - 1)

(***************************************************************************)
(* Termination of checkReadiness (SpecReadinessFair).                      *)
(***************************************************************************)
\* C18: every call of checkReadiness returns, and when no pod listing took
\* any time the call has returned within READINESS_TIMEOUT plus one
\* READINESS_CHECK_INTERVAL of its start.
C18_ReturnsInTime ==
    /\ <>cr.returned
    /\ [](cr.returned /\ ~cr.slow =>
             cr.elapsed <= READINESS_TIMEOUT + READINESS_CHECK_INTERVAL)

\* The part of C18 that holds: a call ends, by a return or by an exception
\* of the pod listing, and a return comes within the bound.
ReturnsOrRaisesInTime ==
    /\ <>(cr.returned \/ pc = "raised")
    /\ [](cr.returned /\ ~cr.slow =>
             cr.elapsed <= READINESS_TIMEOUT + READINESS_CHECK_INTERVAL)

(***************************************************************************)
(* Termination of _execInPod (SpecExec).                                   *)
(***************************************************************************)
\* C19: every call of _execInPod returns, whatever the remote command does.
C19_ExecReturns == <>xp.returned

(***************************************************************************)
(* What passTestCases returns (SpecCollect).                               *)
(***************************************************************************)
\* A test identifier as the specification reads it: a non-empty line that
\* contains "::" and starts with neither "=" nor "-".
LooksLikeIdentifier(line) ==
    /\ line # <<>>
    /\ Contains(line, SEPARATOR)
    /\ line[1] \notin {"=", "-"}

\* The identifiers of an output: its stripped lines that look like one, in
\* output order.
Identifiers(stdout) ==
    LET lines == SplitLines(stdout)
    IN  SelectSeq([i \in 1..Len(lines) |-> Strip(lines[i])],
                  LooksLikeIdentifier)

\* An attempt that yields: the collection ran and its output has an
\* identifier.
Yields(made) == made.found /\ Identifiers(made.stdout) # <<>>

\* C21: no attempt of passTestCases follows one that yields; an attempt that
\* yields ends the call, whatever its exit code, and the call returns the
\* identifiers of that attempt's output; an attempt that does not yield,
\* whatever its exit code, is followed by another unless it is attempt
\* MAX_RETRIES, after which the call returns [].
C21_ReturnsIdentifiers ==
    LET n == Len(pt.log)
    IN  /\ \A i \in 1..(n - 1) : ~Yields(pt.log[i])
        /\ n >= 1 /\ Yields(pt.log[n]) =>
               pt.returned /\ pt.ret = Identifiers(pt.log[n].stdout)
        /\ n >= 1 /\ ~Yields(pt.log[n]) /\ n < MAX_RETRIES => ~pt.returned
        /\ pt.returned /\ ~(n >= 1 /\ Yields(pt.log[n])) =>
               pt.ret = <<>> /\ n = MAX_RETRIES

\* C21 witness: the first attempt exits with 0 and prints no identifier, the
\* second exits with a non-zero code and prints two lines with identifiers
\* among others; the call returns the two, stripped.
C21_Witness ==
    /\ entry = "passTestCases"
    /\ pt.returned /\ Len(pt.log) = 2
    /\ pt.log[1].found /\ pt.log[1].rc = 0
    /\ pt.log[2].rc # 0
    /\ Len(pt.ret) = 2 /\ Len(SplitLines(pt.log[2].stdout)) > 2
    /\ pt.ret[1] # SplitLines(pt.log[2].stdout)[1]

(***************************************************************************)
(* The stored list of test cases (SpecCollect).                            *)
(***************************************************************************)
\* C30: whenever a call of passTestCases has returned, the stored list
\* _collectedTestCases is the list that call returned.
C30_StoredIsReturned == pt.returned => collected = pt.ret

(***************************************************************************)
(* Readiness of one pod (SpecSnapshot).                                    *)
(***************************************************************************)
\* Every container of the pod reports ready.
AllContainersReady(pod) == \A i \in 1..Len(pod.cs) : pod.cs[i]

\* C22, as stated: _isPodReady(pod) is True exactly when the phase is
\* Running and every container reports ready, a snapshot without container
\* statuses included.
C22_AsStated ==
    snap.done =>
        (snap.out <=> snap.pod.phase = "Running"
                          /\ AllContainersReady(snap.pod))

\* C22, amended: _isPodReady(pod) is True exactly when the phase is Running,
\* the pod reports at least one container status and every container
\* reports ready.
C22_ReadyIffRunningAndAllReady ==
    snap.done =>
        (snap.out <=> /\ snap.pod.phase = "Running"
                      /\ snap.pod.cs # <<>>
                      /\ AllContainersReady(snap.pod))

\* C22 witness: a Running pod without container statuses has been found not
\* ready.
C22_Witness ==
    /\ snap.done /\ ~snap.out
    /\ snap.pod.phase = "Running" /\ snap.pod.cs = <<>>

(***************************************************************************)
(* The polls of checkReadiness (SpecReadiness).                            *)
(***************************************************************************)
\* C23: at every poll of checkReadiness the outcome rests on what the API
\* answers at that poll alone.  An API error and an empty list count as
\* zero ready pods and do not raise; with a threshold above zero the call
\* then neither returns nor raises but sleeps and polls again.  The call
\* returns True at the poll exactly when the pods ready in this answer are
\* at least minReady, whatever the earlier polls counted; otherwise it
\* polls again.
C23_FreshCountEachPoll ==
    [][pc = "cr_loop" /\ cr.elapsed < READINESS_TIMEOUT =>
         /\ pc' = "raised" <=> cr'.answer = "exception"
         /\ cr'.answer \in {"error", "empty"} =>
                /\ cr'.ready = 0
                /\ cr.minReady >= 1 =>
                       /\ ~cr'.returned /\ pc' = "cr_loop"
                       /\ cr'.elapsed >= cr.elapsed + READINESS_CHECK_INTERVAL
         /\ cr'.answer # "exception" =>
                IF cr'.ready >= cr.minReady
                THEN cr'.returned /\ cr'.ret
                ELSE ~cr'.returned /\ pc' = "cr_loop"]_vars

\* C23 witness: a call with a threshold above zero is still polling after a
\* poll, later than the first, at which the listing failed with an API
\* error.
C23_Witness ==
    /\ entry = "checkReadiness"
    /\ pc = "cr_loop" /\ ~cr.returned
    /\ cr.minReady >= 1
    /\ cr.answer = "error"
    /\ cr.at >= READINESS_CHECK_INTERVAL

(***************************************************************************)
(* The runs of helm in a full run (Spec).                                  *)
(***************************************************************************)
\* The Deploy stage has ended with success.
Deployed == \E i \in 1..Len(run.stages) : run.stages[i] = <<"Deploy", "ok">>

\* C24: a step of a full run that runs helm (the commands run so far or the
\* count of runs changes) is a step of deploy's retry loop inside the Deploy
\* stage, in a run with a chart path and without skipDeploy, before the
\* stage has succeeded: no step of checkReadiness, passTestCases,
\* executeTests, the node selection or run itself runs helm, and none does
\* once the deployment has succeeded, whatever fails afterwards.
C24_HelmOnlyInDeploy ==
    [][helm' # helm \/ he'.invoked > he.invoked =>
         /\ pc = "deploy_run"
         /\ LastEvent = <<"Deploy", "start">>
         /\ ~args.skipDeploy /\ args.helmChartPath # NoPath
         /\ ~Deployed]_vars

\* C24 witness: a run that deployed with helm and then failed in
\* ExecuteTests has returned.
C24_Witness ==
    /\ entry = "run"
    /\ helm # {} /\ Deployed
    /\ run.returned /\ ~run.ret
    /\ LastEvent = <<"ExecuteTests", "failed">>

(***************************************************************************)
(* The test command of a full run (Spec).                                  *)
(***************************************************************************)
\* C25: in a full run executeTests is never given the collected list: it
\* has no specific tests, and the command it builds and runs in the
\* controller pod is the all-tests command on tests/, whatever the
\* collection returned.  The command being the same in every run, two runs
\* that differ only in the collection's result run the identical command.
C25_CollectionNotPassed ==
    /\ ex.specificTests = <<>>
    /\ ex.testPath = "tests/"
    /\ ex.command # <<>> => ex.command = AllTestsCommand
    /\ ex.log # <<>> => ex.command = AllTestsCommand

\* C25 witness: the collection returned two identifiers and the tests were
\* then run with the all-tests command.
C25_Witness ==
    /\ entry = "run"
    /\ Len(run.testCases) = 2 /\ collected = run.testCases
    /\ ex.log # <<>> /\ ex.command = AllTestsCommand

(***************************************************************************)
(* The attempts of one executeTests call (SpecExecute).                    *)
(***************************************************************************)
\* C28: every attempt of one executeTests call ran in the controller pod
\* found at the start of the call, with HEADLESS=true and REMOTE_URL
\* http://<node>:4444 for the node selected before the first attempt; from
\* the first attempt on the call stays in its retry loop until it returns:
\* the controller pod and the node are kept and no selection or probe is made
\* between attempts.
C28_OneNodePerCall ==
    /\ [](\A i \in 1..Len(ex.log) :
             /\ ex.controller # None /\ ex.node # None
             /\ ex.log[i].pod = ex.controller
             /\ ex.log[i].env.HEADLESS = "true"
             /\ ex.log[i].env.REMOTE_URL = <<"http://", ex.node, ":4444">>)
    /\ [][pc = "ex_run" =>
            /\ pc' = "ex_run" \/ ex'.returned
            /\ ex'.controller = ex.controller /\ ex'.node = ex.node
            /\ sel' = sel /\ sel.probes = <<>>]_vars

\* C28 witness: a call that made MAX_RETRIES attempts with a node selected.
C28_Witness ==
    /\ entry = "executeTests"
    /\ ex.returned /\ Len(ex.log) = MAX_RETRIES
    /\ ex.node # None /\ ex.controller # None
    /\ ex.log[1].env = ex.log[MAX_RETRIES].env

(***************************************************************************)
(* The two levels of retry of the Deploy stage (Spec).                     *)
(***************************************************************************)
\* C29: helm is never run more than MAX_RETRIES * MAX_RETRIES times in a
\* full run, and when handleErrors returns the failure of the Deploy stage
\* to run, helm, if it was run at all, has failed MAX_RETRIES * MAX_RETRIES
\* times: MAX_RETRIES calls of deploy of MAX_RETRIES runs each.
C29_DeployRetriedTwice ==
    /\ he.invoked <= MAX_RETRIES * MAX_RETRIES
    /\ pc = "run_deployed" /\ ~he.ok /\ he.invoked # 0 =>
           /\ he.invoked = MAX_RETRIES * MAX_RETRIES
           /\ Len(he.results) = MAX_RETRIES
           /\ Len(dp.log) = MAX_RETRIES
           /\ \A i \in 1..Len(dp.log) : _runCommand(dp.log[i]) # 0

\* C29 witness: handleErrors hands run the failure of the Deploy stage after
\* MAX_RETRIES * MAX_RETRIES failed runs of helm.
C29_Witness ==
    /\ entry = "run"
    /\ pc = "run_deployed" /\ he.returned /\ ~he.ok
    /\ he.invoked = MAX_RETRIES * MAX_RETRIES
    /\ he.invoked > MAX_RETRIES

(***************************************************************************)
(* The exit code and the step selection of main (SpecMain).                *)
(***************************************************************************)
\* The one step this invocation entered has returned what main takes for
\* success: the status listing was made, deploy returned True, both
\* readiness checks returned True, passTestCases returned a non-empty list,
\* executeTests or run returned success.
StepSucceeded ==
    /\ Len(mn.steps) = 1
    /\ \/ mn.steps[1] = "status" /\ mn.listed
       \/ mn.steps[1] = "deploy" /\ dp.returned /\ dp.ret
       \/ /\ mn.steps[1] = "checkReadiness"
          /\ mn.chromeReady
          /\ cr.label = CONTROLLER_POD_LABEL /\ cr.returned /\ cr.ret
       \/ mn.steps[1] = "passTestCases" /\ pt.returned /\ pt.ret # <<>>
       \/ mn.steps[1] = "executeTests" /\ ex.returned /\ ex.ok
       \/ mn.steps[1] = "run" /\ run.returned /\ run.ret

\* The one step this invocation entered has returned failure.
StepFailed ==
    /\ Len(mn.steps) = 1
    /\ \/ mn.steps[1] = "deploy" /\ dp.returned /\ ~dp.ret
       \/ /\ mn.steps[1] = "checkReadiness"
          /\ cr.label = CONTROLLER_POD_LABEL /\ cr.returned
          /\ ~(mn.chromeReady /\ cr.ret)
       \/ mn.steps[1] = "passTestCases" /\ pt.returned /\ pt.ret = <<>>
       \/ mn.steps[1] = "executeTests" /\ ex.returned /\ ~ex.ok
       \/ mn.steps[1] = "run" /\ run.returned /\ ~run.ret

\* The exit code by what happened, the user's interrupt first.
CodeByOutcome ==
    /\ mn.code \in {0, 1, 130}
    /\ mn.code = 130 <=> mn.interrupted
    /\ mn.code = 0 <=> ~mn.interrupted /\ StepSucceeded
    /\ mn.code = 1 <=> ~mn.interrupted /\ (mn.caught \/ StepFailed)

\* C26 as stated: the process exits with 0 exactly when the step or the full
\* run succeeded, with 1 when it failed or an exception other than the
\* interrupt occurred, with 130 when interrupted, and with no other code.
C26_AsStated == mn.exited => CodeByOutcome

\* C26, amended: on a command line the parser accepts the exit code is 0
\* exactly when the step or the full run succeeded, 1 when it failed or an
\* exception other than the interrupt occurred inside the try block, 130 when
\* interrupted there; the parser itself exits with 2 on a command line it
\* rejects and with 0 on a request for help, before any step.
C26_ExitCodes ==
    mn.exited =>
        /\ mn.cmdline = "ok" => CodeByOutcome
        /\ mn.cmdline = "invalid" => mn.code = 2 /\ mn.steps = <<>>
        /\ mn.cmdline = "help" => mn.code = 0 /\ mn.steps = <<>>
        /\ ~(mn.caught /\ (StepSucceeded \/ StepFailed))

\* C26 witness: a step failed by an exception that main caught, exit code 1.
C26_Witness ==
    /\ mn.exited /\ mn.caught /\ mn.code = 1
    /\ mn.steps = <<"executeTests">>
    /\ ex.controller # None /\ ~ex.returned

\* No step flag is given.
NoFlagGiven == mn.flags = NoFlags

\* The number of step flags given.
FlagsGiven ==
    Cardinality({f \in DOMAIN mn.flags : mn.flags[f]})

\* C27: an invocation never enters more than one step; the step it enters
\* is one whose flag was given, or the full run when no flag was given; and
\* an invocation that gets to the dispatch (the parser accepts the command
\* line, the orchestrator is constructed, no interrupt before) and exits has
\* entered exactly one.
C27_OneStepPerInvocation ==
    /\ Len(mn.steps) <= 1
    /\ mn.steps # <<>> =>
           IF NoFlagGiven THEN mn.steps[1] = "run"
           ELSE mn.steps[1] \in DOMAIN mn.flags /\ mn.flags[mn.steps[1]]
    /\ mn.exited /\ mn.cmdline = "ok" /\ mn.kubeconfig /\ ~mn.interrupted =>
           Len(mn.steps) = 1

\* C27 witness: two step flags were given, the collection ran to its exit
\* and the execution was never entered.
C27_Witness ==
    /\ mn.exited /\ ~mn.interrupted /\ ~mn.caught
    /\ mn.flags.passTestCases /\ mn.flags.executeTests
    /\ FlagsGiven >= 2
    /\ mn.steps = <<"passTestCases">>
    /\ pt.returned /\ ex = EmptyEx

(***************************************************************************)
(* Results outside the contract of handleErrors (SpecRetry).               *)
(***************************************************************************)
\* A result that is neither a bool nor a non-empty tuple nor an exception:
\* None, an empty list, the integer 0, the empty tuple.
Other(result) == result.t \in {"none", "list", "int", "emptytuple"}

\* C32: a call whose result is neither a bool nor a non-empty tuple is the
\* last call handleErrors makes, and handleErrors then returns
\* (True, that result), whatever the truth value of the result.
C32_OtherResultIsSuccess ==
    LET n == Len(he.results)
    IN  \A i \in 1..n :
            Other(he.results[i]) =>
                /\ i = n
                /\ pc # "he_try"
                /\ he.returned => he.ok /\ he.result = he.results[i]
                /\ ~he.returned => pc = "he_result" /\ he.attempt = i

\* C32 witness: the only call returned an empty list and handleErrors has
\* returned (True, []).
C32_Witness ==
    /\ entry = "handleErrors"
    /\ he.returned /\ he.ok
    /\ Len(he.results) = 1
    /\ he.results[1].t = "list"
    /\ he.result = he.results[1]
    /\ he.sleeps = 0

(***************************************************************************)
(* A chart path that does not exist (Spec).                                *)
(***************************************************************************)
\* C34: when the chart path does not exist, a call of deploy returns False
\* having run helm not once and slept not at all, handleErrors makes
\* MAX_RETRIES such calls, each returning False, before it returns the
\* failure to run, and run then fails at the Deploy stage.
C34_MissingChartChecked ==
    ~args.chartExists =>
        /\ helm = {} /\ he.invoked = 0
        /\ dp.log = <<>> /\ dp.sleeps = 0 /\ dp.slept = 0
        /\ pc # "deploy_run"
        /\ dp.returned => ~dp.ret
        /\ \A i \in 1..Len(he.results) : he.results[i] = PyBool(FALSE)
        /\ pc = "run_deployed" =>
               ~he.ok /\ Len(he.results) = MAX_RETRIES
        /\ run.returned /\ run.stages[1] = <<"Deploy", "start">> =>
               ~run.ret /\ run.stages = <<<<"Deploy", "start">>,
                                          <<"Deploy", "failed">>>>

\* C34 witness: handleErrors returns the failure after MAX_RETRIES calls of
\* deploy on a chart path that does not exist, with no run of helm.
C34_Witness ==
    /\ entry = "run"
    /\ ~args.chartExists /\ args.helmChartPath # NoPath /\ ~args.skipDeploy
    /\ pc = "run_deployed" /\ he.returned /\ ~he.ok
    /\ Len(he.results) = MAX_RETRIES
    /\ dp.returned /\ ~dp.ret /\ dp.attempt = 0
    /\ helm = {}

(***************************************************************************)
(* The replica settings of the helm command (SpecDeploy).                  *)
(***************************************************************************)
\* The requested count brought into 1..5.
Into1To5(n) == IF n < 1 THEN 1 ELSE IF n > 5 THEN 5 ELSE n

\* C35: every helm command deploy runs sets replicaCount and minReplicas to
\* the requested node count brought into 1..5 and maxReplicas to 5, so that
\* 1 <= minReplicas <= maxReplicas; and every run of helm is of such a
\* command.
C35_ReplicaSettings ==
    /\ \A h \in helm :
           /\ h.replicaCount = Into1To5(args.nodeCount)
           /\ h.minReplicas = h.replicaCount
           /\ h.maxReplicas = 5
           /\ 1 <= h.minReplicas /\ h.minReplicas <= h.maxReplicas
    /\ dp.log # <<>> => helm # {}

\* C35 witness: deploy was asked for more nodes than the maximum and has run
\* helm with minReplicas = maxReplicas.
C35_Witness ==
    /\ entry = "deploy"
    /\ args.nodeCount > MAX_NODE_COUNT
    /\ dp.returned /\ dp.log # <<>>
    /\ \E h \in helm : h.minReplicas = h.maxReplicas

(***************************************************************************)
(* The controller pod the commands run in (Spec).                          *)
(***************************************************************************)
\* C33: the controller pod taken by the selection of a node (for its
\* probes), by the collection and by the execution is the pod the listing
\* has in first place, ready or not: the collection goes on to run its
\* command in that pod whatever the listing says of its readiness.
C33_FirstListedControllerUsed ==
    /\ sel.controller \in {None, ControllerName(1)}
    /\ pt.controller \in {None, ControllerName(1)}
    /\ ex.controller \in {None, ControllerName(1)}
    /\ pc = "ptc_exec" => pt.controller = ControllerName(1)
    /\ pc \in {"sel_list", "sel_loop"} => sel.controller = ControllerName(1)
    /\ pc \in {"ex_selected", "ex_run"} => ex.controller = ControllerName(1)

\* C33 witness: the ReadyController stage has succeeded, and the collection
\* is about to run its command in the first listed controller pod, which the
\* listing shows not ready beside a ready one.
C33_Witness ==
    /\ entry = "run"
    /\ \E i \in 1..Len(run.stages) : run.stages[i] = <<"ReadyController", "ok">>
    /\ pc = "ptc_exec"
    /\ pt.controller = ControllerName(1)
    /\ ~pt.podReady /\ pt.readyListed >= 1

(***************************************************************************)
(* retryOnStaleElement (SpecStale).                                        *)
(***************************************************************************)
\* C36: the wrapped function is called at most maxAttempts times; only a
\* call that raised the stale-element exception is followed by another; a
\* call that returns ends the wrapper with its value; the stale-element
\* exception leaves the wrapper exactly when call number maxAttempts raised
\* it; any other exception leaves the wrapper from the call that raised it.
C36_RetriesStaleOnly ==
    LET n == Len(rs.calls)
        last == rs.calls[n]
    IN  /\ n <= rs.maxAttempts
        /\ \A i \in 1..(n - 1) : rs.calls[i] = [kind |-> "raise", v |-> STALE]
        /\ n >= 1 =>
             /\ last.kind = "return" =>
                    rs.returned /\ rs.ret = last.v /\ rs.raised = "none"
             /\ last.kind = "raise" /\ last.v # STALE =>
                    pc = "raised" /\ rs.raised = last.v /\ ~rs.returned
             /\ last.kind = "raise" /\ last.v = STALE =>
                    IF n = rs.maxAttempts
                    THEN pc = "raised" /\ rs.raised = STALE /\ ~rs.returned
                    ELSE pc = "rs_loop" /\ rs.raised = "none" /\ ~rs.returned
        /\ pc = "raised" => n >= 1 /\ last.kind = "raise"
        /\ rs.returned /\ rs.maxAttempts >= 1 => n >= 1 /\ last.kind = "return"

\* C36 witness: with maxAttempts = 3 the first two calls raised the
\* stale-element exception and the third returned, which the wrapper
\* returned.
C36_Witness ==
    /\ entry = "retryOnStaleElement"
    /\ rs.maxAttempts = 3
    /\ Len(rs.calls) = 3
    /\ rs.calls[1].v = STALE /\ rs.calls[2].v = STALE
    /\ rs.calls[3] = [kind |-> "return", v |-> "self"]
    /\ rs.returned /\ rs.ret = "self" /\ rs.sleeps = 2

(***************************************************************************)
(* MAX_RETRIES configured below one (SpecConfigured).                      *)
(***************************************************************************)
\* What the claim says of deploy, passTestCases and handleErrors, and of
\* executeTests short of its not raising: no attempt is made (no run of
\* helm, no collection, no test run, no call of the operation) and what is
\* returned is the failure value.
NoAttemptAndFailure ==
    /\ helm = {} /\ dp.log = <<>>
    /\ pt.log = <<>>
    /\ ex.log = <<>>
    /\ he.results = <<>>
    /\ dp.returned => ~dp.ret
    /\ pt.returned => pt.ret = <<>> /\ collected = <<>>
    /\ ex.returned => ~ex.ok
    /\ he.returned => ~he.ok /\ he.result = PyNone

\* C31: with MAX_RETRIES configured as zero or a negative number, deploy,
\* passTestCases, executeTests and handleErrors make no attempt, return
\* their failure value (False, [], (False, ...), (False, None)), and no
\* statement of theirs raises.  (An exception of a pod listing that leaves
\* executeTests is not counted here.)
C31_NoAttemptNoRaise ==
    args.MAX_RETRIES <= 0 => NoAttemptAndFailure /\ ex.error = "none"

\* With MAX_RETRIES below one the three other operations, and executeTests
\* when it finds no controller pod or no node, do as C31 says.
ZeroRetriesElsewhere ==
    args.MAX_RETRIES <= 0 => NoAttemptAndFailure

=============================================================================
